---- MODULE Spec2Model ----
(***************************************************************************)
(* PloneVoteCryptoLib threshold ElGamal scheme.                            *)
(*                                                                         *)
(* Modelled classes:                                                       *)
(*   ThresholdEncryptionSetUp      (Threshold/ThresholdEncryptionSetUp.py) *)
(*   ThresholdPublicKey            (Threshold/ThresholdPublicKey.py)       *)
(*   ThresholdPrivateKey           (Threshold/ThresholdPrivateKey.py)      *)
(*   ThresholdDecryptionCombinator (Threshold/ThresholdDecryptionCombinator*)
(*                                  .py)                                   *)
(*   CoefficientsPolynomial        (Threshold/Polynomial.py)               *)
(*                                                                         *)
(* The set-up, the threshold public key and the combinator are those of    *)
(* PloneVote/components/python_libs/PloneVoteCryptoLib; the polynomial and *)
(* generate_partial_decryption (with its proofs) are those of              *)
(* PloneVoteCryptoLib/plonevotecryptolib, the only ones the source has.    *)
(*                                                                         *)
(* Python lists are modelled as TLA+ sequences; PyGet reads them with a    *)
(* 0-based index the way Python does (negative indexes count from the      *)
(* end).  Python's None and every object are records, so that any two      *)
(* values can be compared.                                                 *)
(*                                                                         *)
(* All arithmetic is done in a small ElGamal group (a safe prime p = 2q+1  *)
(* and a generator of the group), with the very formulas of the source.   *)
(***************************************************************************)
EXTENDS Integers, Sequences, FiniteSets, TLC

VARIABLES
    num_trustees,                  \* self._num_trustees
    threshold,                     \* self._threshold
    trustees_simple_public_keys,   \* ThresholdEncryptionSetUp._trustees_simple_public_keys
    trustees_commitments,          \* ThresholdEncryptionSetUp._trustees_commitments, per set-up object
    public_key,                    \* ThresholdDecryptionCombinator.public_key
    ciphertext,                    \* ThresholdDecryptionCombinator._ciphertext
    trustees_partial_decryptions,  \* ThresholdDecryptionCombinator._trustees_partial_decryptions
    threshold_private_keys,        \* the ThresholdPrivateKey each trustee got from generate_key_pair
    plaintext,                     \* the blocks that were encrypted into ciphertext
    collection,                    \* the CiphertextCollection to be shuffled
    mapping,                       \* the CiphertextCollectionMapping made for it
    shuffled_collection,           \* what mapping.apply(collection) returned
    params,                        \* the configuration module: MINIMUM_KEY_SIZE, DEBUG
    coefficients_polynomial,       \* a CoefficientsPolynomial
    bit_stream,                    \* a BitStream
    written,                       \* the (number, bit length) pairs put into bit_stream
    task_monitor,                  \* a root TaskMonitor and its running subtasks
    calls,                         \* the callback invocations of the last operation
    result                         \* what the last call returned or raised

vars == <<num_trustees, threshold, trustees_simple_public_keys,
          trustees_commitments, public_key, ciphertext,
          trustees_partial_decryptions, threshold_private_keys, plaintext,
          collection, mapping, shuffled_collection, params,
          coefficients_polynomial, bit_stream, written, task_monitor, calls, result>>

(***************************************************************************)
(* Bounds of the model.                                                    *)
(***************************************************************************)
\* largest number of trustees of a set-up object
SetUpMaxTrustees == 2
\* largest number of trustees of a combinator
MaxTrustees == 3
\* largest number of trustees of the schemes whose verification is explored
AddMaxTrustees == 2

\* the longest text encrypted, in bytes
MaxTextBytes == 1

\* the largest number of ciphertexts in a collection
MaxCiphertexts == 2

\* the largest key size, in bytes, given to EGCryptoSystem.load
MaxLoadBytes == 2

\* the largest degree of a polynomial
MaxDegree == 2

\* the most callbacks in the lists of the running tasks
MaxCallbacks == 2

\* the deepest nesting of running tasks, the root included
MaxDepth == 3

\* the most subtasks the running tasks have started
MaxSubtasks == 3

\* the most ticks the running tasks have recorded
MaxTicks == 1

(***************************************************************************)
(* Python values.                                                          *)
(***************************************************************************)
None == [class |-> "None"]

Raise(exception) == [class |-> "Exception", exception |-> exception]

IsException(value) == value.class = "Exception"

\* list[i] for a Python list kept as a sequence
PyGet(list, i) ==
    IF 0 <= i /\ i < Len(list) THEN list[i + 1]
    ELSE IF i < 0 /\ -i <= Len(list) THEN list[Len(list) + i + 1]
    ELSE Raise("IndexError")

PyInRange(list, i) == (0 <= i /\ i < Len(list)) \/ (i < 0 /\ -i <= Len(list))

\* [None for i in range(1, n + 1)]
NoneList(n) == [i \in 1..n |-> None]

RECURSIVE pow(_, _, _)
\* pow(base, exponent, modulus) of Python, exponent >= 0
pow(base, exponent, modulus) ==
    IF exponent = 0 THEN 1 % modulus
    ELSE IF exponent % 2 = 0
         THEN LET half == pow(base, exponent \div 2, modulus)
              IN  (half * half) % modulus
         ELSE ((base % modulus) * pow(base, exponent - 1, modulus)) % modulus

RECURSIVE IntPow(_, _)
\* base ** exponent of Python
IntPow(base, exponent) ==
    IF exponent = 0 THEN 1 ELSE base * IntPow(base, exponent - 1)

(***************************************************************************)
(* EGCryptoSystem: (nbits, prime, generator), prime = 2q + 1 a safe prime  *)
(* and generator a generator of the multiplicative group mod prime.        *)
(***************************************************************************)
cryptosystem == [class |-> "EGCryptoSystem", nbits |-> 4, prime |-> 11, generator |-> 2]

\* a second, different cryptosystem (for incompatible commitments)
second_cryptosys == [class |-> "EGCryptoSystem", nbits |-> 5, prime |-> 23, generator |-> 5]

get_nbits(cs) == cs.nbits
get_prime(cs) == cs.prime
get_generator(cs) == cs.generator

\* q = (prime - 1) / 2
q_of(cs) == (get_prime(cs) - 1) \div 2

(***************************************************************************)
(* SHA256: the digest of the sequence of hex(...) strings fed to update(). *)
(* Each string starts with "0x", so the concatenation determines the       *)
(* sequence of numbers and nothing else (not how they were grouped): the   *)
(* digest is modelled, collision free, as that flat sequence.              *)
(***************************************************************************)
SHA256(updates) == [class |-> "sha256", hexdigest |-> updates]

RECURSIVE DigestToInt(_, _)
\* int(sha256.hexdigest(), 16): an integer determined by the digest
DigestToInt(updates, base) ==
    IF updates = <<>> THEN 0
    ELSE Head(updates) + base * DigestToInt(Tail(updates), base)

(***************************************************************************)
(* PublicKey / PrivateKey / Ciphertext (the 1-to-1 keys of the trustees).  *)
(***************************************************************************)
PublicKey(cs, public_key_value) ==
    [class |-> "PublicKey", cryptosystem |-> cs, key |-> public_key_value]

PrivateKey(cs, pub, private_key_value) ==
    [class |-> "PrivateKey", cryptosystem |-> cs, public_key |-> pub,
     key |-> private_key_value]

\* PublicKey.get_fingerprint
PublicKey_get_fingerprint(pk) ==
    SHA256(<<get_nbits(pk.cryptosystem), get_prime(pk.cryptosystem),
             get_generator(pk.cryptosystem), pk.key>>)

Ciphertext(nbits, pk_fingerprint, blocks) ==
    [class |-> "Ciphertext", nbits |-> nbits, pk_fingerprint |-> pk_fingerprint,
     blocks |-> blocks]

\* one ElGamal block: (gamma, delta) = (g^k, m * y^k) mod p
EncryptBlock(cs, key, block, k) ==
    <<pow(get_generator(cs), k, get_prime(cs)),
      (block * pow(key, k, get_prime(cs))) % get_prime(cs)>>

\* decryption with the exponent key in place of p - 1 - key
DecryptBlock_exponent_key(cs, key, pair) ==
    (pow(pair[1], key, get_prime(cs)) * pair[2]) % get_prime(cs)

\* m = gamma^(p - 1 - key) * delta mod p
DecryptBlock(cs, key, pair) ==
    (pow(pair[1], get_prime(cs) - 1 - key, get_prime(cs)) * pair[2]) % get_prime(cs)

\* the key pair of trustee j (EGCryptoSystem.new_key_pair): private key in [1, p - 2]
TrusteePrivateKey(j) ==
    LET value == 1 + ((3 * j) % (get_prime(cryptosystem) - 2))
    IN  PrivateKey(cryptosystem,
                   PublicKey(cryptosystem,
                             pow(get_generator(cryptosystem), value, get_prime(cryptosystem))),
                   value)

TrusteePublicKey(j) == TrusteePrivateKey(j).public_key

\* trustee_pk.encrypt_bitstream(bitstream) for a bitstream holding one number:
\* the number travels in one ElGamal block under the recipient's key
encrypt_bitstream(pk, number, k) ==
    Ciphertext(get_nbits(pk.cryptosystem), PublicKey_get_fingerprint(pk),
               <<EncryptBlock(pk.cryptosystem, pk.key, number, k)>>)

\* simple_private_key.decrypt_to_bitstream(ciphertext) followed by the
\* get_num calls that read the number back
decrypt_to_bitstream(sk, ct) ==
    IF ct.nbits # get_nbits(sk.cryptosystem) THEN Raise("IncompatibleCiphertextError")
    ELSE IF ct.pk_fingerprint # PublicKey_get_fingerprint(sk.public_key)
         THEN Raise("IncompatibleCiphertextError")
    ELSE [class |-> "BitStream",
          number |-> DecryptBlock(sk.cryptosystem, sk.key, ct.blocks[1])]

(***************************************************************************)
(* CoefficientsPolynomial.                                                 *)
(***************************************************************************)
CoefficientsPolynomial(modulus, coefficients) ==
    [class |-> "CoefficientsPolynomial", modulus |-> modulus,
     coefficients |-> [i \in 1..Len(coefficients) |-> coefficients[i] % modulus]]

RECURSIVE Horner(_, _, _, _)
Horner(coefficients, i, x, modulus) ==
    IF i = 0 THEN 0
    ELSE \* for coeff in reversed(coefficients): value = (value * x + coeff) % modulus
         LET rest == Horner(coefficients, i - 1, x, modulus)
         IN  (rest * x + coefficients[Len(coefficients) - i + 1]) % modulus

\* __call__ that goes through the coefficients from the first to the last
polynomial_call_not_reversed(polynomial, x) ==
    Horner([i \in 1..Len(polynomial.coefficients) |->
               polynomial.coefficients[Len(polynomial.coefficients) + 1 - i]],
           Len(polynomial.coefficients), x, polynomial.modulus)

\* CoefficientsPolynomial.__call__
polynomial_call(polynomial, x) ==
    Horner(polynomial.coefficients, Len(polynomial.coefficients), x, polynomial.modulus)

(***************************************************************************)
(* ThresholdEncryptionCommitment (a plain record of six attributes) and    *)
(* ThresholdPublicKey / ThresholdPrivateKey / ThresholdKeyPair.            *)
(***************************************************************************)
ThresholdEncryptionCommitment(cs, n, k, pub_coefficients, ppub_keys, enc_keys) ==
    [class |-> "ThresholdEncryptionCommitment", cryptosystem |-> cs,
     num_trustees |-> n, threshold |-> k,
     public_coefficients |-> pub_coefficients,
     partial_public_keys |-> ppub_keys,
     encrypted_partial_private_keys |-> enc_keys]

\* ThresholdPublicKey.__init__
ThresholdPublicKey(cs, n, k, public_key_value, verification_partial_public_keys) ==
    IF k > n THEN Raise("ValueError")
    ELSE IF Len(verification_partial_public_keys) # n THEN Raise("ValueError")
    ELSE [class |-> "ThresholdPublicKey", cryptosystem |-> cs, key |-> public_key_value,
          num_trustees |-> n, threshold |-> k,
          partial_public_keys |-> verification_partial_public_keys]

\* ThresholdPublicKey.get_fingerprint
ThresholdPublicKey_get_fingerprint(pk) ==
    SHA256(<<get_nbits(pk.cryptosystem), get_prime(pk.cryptosystem),
             get_generator(pk.cryptosystem), pk.key>> \o pk.partial_public_keys)

\* ThresholdPublicKey.get_partial_public_key
get_partial_public_key(pk, trustee) == PyGet(pk.partial_public_keys, trustee - 1)

ThresholdPrivateKey(cs, n, k, threshold_public_key, private_key_value) ==
    [class |-> "ThresholdPrivateKey", cryptosystem |-> cs, num_trustees |-> n,
     threshold |-> k, public_key |-> threshold_public_key, key |-> private_key_value]

ThresholdKeyPair(private, public) ==
    [class |-> "ThresholdKeyPair", private_key |-> private, public_key |-> public]

(***************************************************************************)
(* ThresholdEncryptionSetUp: the methods as functions of the object's      *)
(* fields (n, k, the list of public keys, the list of commitments).        *)
(***************************************************************************)
\* ThresholdEncryptionSetUp.generate_commitment; coefficients are the draws of
\* new_random_polynomial, ks[j] the draw of the encryption for trustee j
generate_commitment(cs, n, k, simple_public_keys, coefficients, ks) ==
    IF \E trustee \in 1..n : PyGet(simple_public_keys, trustee - 1) = None
    THEN Raise("ThresholdEncryptionSetUpStateError")
    ELSE
    LET prime == get_prime(cs)
        generator == get_generator(cs)
        nbits == get_nbits(cs)
        q == (prime - 1) \div 2
        polynomial == CoefficientsPolynomial(q, coefficients)
        public_coeficients ==
            [i \in 1..Len(polynomial.coefficients) |->
                pow(generator, polynomial.coefficients[i], prime)]
        partial_pub_keys ==
            [trustee \in 1..n |-> pow(generator, polynomial_call(polynomial, trustee), prime)]
        enc_partial_priv_keys ==
            [trustee \in 1..n |->
                encrypt_bitstream(PyGet(simple_public_keys, trustee - 1),
                                  polynomial_call(polynomial, trustee), ks[trustee])]
    IN  ThresholdEncryptionCommitment(cs, n, k, public_coeficients,
                                      partial_pub_keys, enc_partial_priv_keys)

RECURSIVE FingerprintUpdates(_, _)
\* the numbers get_fingerprint feeds to the hash for commitments[i..]
FingerprintUpdates(commitments, i) ==
    IF i > Len(commitments) THEN <<>>
    ELSE LET commitment == commitments[i]
             shares == commitment.encrypted_partial_private_keys
             RECURSIVE Blocks(_, _)
             Blocks(ct, b) ==
                 IF b > Len(ct.blocks) THEN <<>>
                 ELSE <<ct.blocks[b][1], ct.blocks[b][2]>> \o Blocks(ct, b + 1)
             RECURSIVE Shares(_)
             Shares(j) ==
                 IF j > Len(shares) THEN <<>>
                 ELSE Blocks(shares[j], 1) \o Shares(j + 1)
         IN  commitment.public_coefficients \o Shares(1)
                \o FingerprintUpdates(commitments, i + 1)

\* a fingerprint that passes over the empty slots instead of raising
get_fingerprint_of_loaded(commitments) ==
    SHA256(FingerprintUpdates(SelectSeq(commitments, LAMBDA c : c # None), 1))

\* ThresholdEncryptionSetUp.get_fingerprint
get_fingerprint(commitments) ==
    IF \E i \in 1..Len(commitments) : commitments[i] = None
    THEN Raise("ThresholdEncryptionSetUpStateError")
    ELSE SHA256(FingerprintUpdates(commitments, 1))

RECURSIVE ProductMod(_, _, _)
\* the product of factors[1..i] mod prime, multiplied in one at a time
ProductMod(factors, i, prime) ==
    IF i = 0 THEN 1
    ELSE (ProductMod(factors, i - 1, prime) * factors[i]) % prime

\* ThresholdEncryptionSetUp.generate_public_key
generate_public_key(cs, n, k, commitments) ==
    IF \E i \in 1..Len(commitments) : commitments[i] = None
    THEN Raise("ThresholdEncryptionSetUpStateError")
    ELSE
    LET prime == get_prime(cs)
        \* factor is (g^{P_i(0)})^2
        factors == [i \in 1..Len(commitments) |->
                       pow(PyGet(commitments[i].public_coefficients, 0), 2, prime)]
        key == ProductMod(factors, Len(factors), prime)
        partial_public_keys ==
            [trustee \in 1..n |->
                LET fragments == [i \in 1..Len(commitments) |->
                                     PyGet(commitments[i].partial_public_keys, trustee - 1)]
                IN  ProductMod(fragments, Len(fragments), prime)]
    IN  ThresholdPublicKey(cs, n, k, key, partial_public_keys)

\* a share check that forgets the factor 2 of the exponents: the shares of
\* generate_commitment fail it
ShareCheckRHS_unsquared(commitment, current_trustee, prime) ==
    LET factors == [i \in 1..Len(commitment.public_coefficients) |->
                       pow(commitment.public_coefficients[i],
                           IntPow(current_trustee, i - 1), prime)]
    IN  ProductMod(factors, Len(factors), prime)

\* the right hand side of the share check of generate_key_pair:
\* the product over k of public_coefficients[k]^(2 * current_trustee^k) mod prime
ShareCheckRHS(commitment, current_trustee, prime) ==
    LET factors == [i \in 1..Len(commitment.public_coefficients) |->
                       pow(commitment.public_coefficients[i],
                           2 * IntPow(current_trustee, i - 1), prime)]
    IN  ProductMod(factors, Len(factors), prime)

RECURSIVE KeyPairLoop(_, _, _, _, _, _)
\* the loop of generate_key_pair over trustee = from..n: the exception it
\* raises, or the list of partial private keys it records
KeyPairLoop(cs, n, commitments, current_trustee, simple_private_key, from) ==
    IF from > n THEN [class |-> "list", items |-> <<>>]
    ELSE
    LET commitment == PyGet(commitments, from - 1)
        prime == get_prime(cs)
        generator == get_generator(cs)
    IN  IF commitment = None THEN Raise("ThresholdEncryptionSetUpStateError")
        ELSE IF ~PyInRange(commitment.encrypted_partial_private_keys, current_trustee - 1)
             THEN Raise("IndexError")
        ELSE
        LET ct == PyGet(commitment.encrypted_partial_private_keys, current_trustee - 1)
            bitstream == decrypt_to_bitstream(simple_private_key, ct)
        IN  IF IsException(bitstream) THEN Raise("InvalidCommitmentError")
            ELSE
            LET pp_key == bitstream.number
                left_hand_side == pow(generator, 2 * pp_key, prime)
                right_hand_side == ShareCheckRHS(commitment, current_trustee, prime)
            IN  IF left_hand_side # right_hand_side THEN Raise("InvalidCommitmentError")
                ELSE LET rest == KeyPairLoop(cs, n, commitments, current_trustee,
                                             simple_private_key, from + 1)
                     IN  IF IsException(rest) THEN rest
                         ELSE [class |-> "list", items |-> <<pp_key>> \o rest.items]

RECURSIVE SumMod(_, _, _)
SumMod(numbers, i, q) ==
    IF i = 0 THEN 0 ELSE (SumMod(numbers, i - 1, q) + numbers[i]) % q

\* ThresholdEncryptionSetUp.generate_key_pair
generate_key_pair(cs, n, k, commitments, current_trustee, simple_private_key) ==
    LET loop == KeyPairLoop(cs, n, commitments, current_trustee, simple_private_key, 1)
    IN  IF IsException(loop) THEN loop
        ELSE
        LET partial_private_keys == loop.items
            q == (get_prime(cs) - 1) \div 2
            key == SumMod(partial_private_keys, Len(partial_private_keys), q)
            threshold_public_key == generate_public_key(cs, n, k, commitments)
        IN  IF IsException(threshold_public_key) THEN threshold_public_key
            ELSE ThresholdKeyPair(
                    ThresholdPrivateKey(cs, n, k, threshold_public_key, key),
                    threshold_public_key)

(***************************************************************************)
(* Inputs of the set-up protocol.                                          *)
(***************************************************************************)
\* polynomials of degree threshold instead of threshold - 1
CoefficientDraws_degree_threshold(k) ==
    LET q == q_of(cryptosystem)
    IN  {[i \in 1..(k + 1) |-> 1 + ((seed + i * i) % (q - 1))] : seed \in 0..1}

\* the coefficient lists new_random_polynomial(q, threshold - 1) may draw
\* (threshold coefficients, each in [1, q - 1])
CoefficientDraws(k) ==
    LET q == q_of(cryptosystem)
    IN  {[i \in 1..k |-> 1 + ((seed + i * i) % (q - 1))] : seed \in 0..1}

\* the draws k in [1, p - 2] of the encryption of the share of trustee j
EncryptionDraws(n) == {[j \in 1..n |-> 1 + ((3 + j) % (get_prime(cryptosystem) - 2))]}

\* the public keys a correct run registers: each trustee's own key
AllPublicKeys(n) == [j \in 1..n |-> TrusteePublicKey(j)]

\* the commitments the trustees can generate once every public key is registered
HonestCommitments(n, k) ==
    {generate_commitment(cryptosystem, n, k, AllPublicKeys(n), coefficients, ks) :
        coefficients \in CoefficientDraws(k), ks \in EncryptionDraws(n)}

\* a commitment changed in transit: a public coefficient, the share addressed
\* to a trustee, or a partial public key is replaced
TamperCoefficient(c) ==
    [c EXCEPT !.public_coefficients[1] = (@ * get_generator(c.cryptosystem)) % get_prime(c.cryptosystem)]

TamperShare(c, j) ==
    [c EXCEPT !.encrypted_partial_private_keys[j].blocks[1][2] =
                    (@ * get_generator(c.cryptosystem)) % get_prime(c.cryptosystem)]

TamperPartialPublicKey(c, j) ==
    [c EXCEPT !.partial_public_keys[j] = (@ * get_generator(c.cryptosystem)) % get_prime(c.cryptosystem)]

\* commitments whose global parameters differ from the set-up's
IncompatibleCommitments(c) ==
    {[c EXCEPT !.cryptosystem = second_cryptosys],
     [c EXCEPT !.num_trustees = @ + 1],
     [c EXCEPT !.threshold = @ + 1]}

\* every commitment a caller may hand to add_trustee_commitment
CommitmentInputs(n, k) ==
    LET honest == HonestCommitments(n, k)
        one == CHOOSE c \in honest : TRUE
    IN  honest \cup {TamperCoefficient(one), TamperShare(one, 1),
                     TamperPartialPublicKey(one, 1)}
               \cup IncompatibleCommitments(one)

(***************************************************************************)
(* The set-up objects.  "tSetUp" is the object the trustee works on;       *)
(* "tSetUp2" is a second object of the same parameters (another trustee's) *)
(* whose fingerprint is compared with the first one's.                     *)
(***************************************************************************)
SetUpObjects == {"tSetUp", "tSetUp2"}

\* what a call left in result
Returned(op, trustee, argument, value) ==
    [op |-> op, trustee |-> trustee, argument |-> argument, value |-> value]

NoCall == Returned("__init__", 0, None, None)

\* the configuration the unit tests run under: no minimum key size
TestParams == [MINIMUM_KEY_SIZE |-> 0, DEBUG |-> FALSE]

\* no polynomial, bit stream or task monitor has been made
UtilitiesUnused ==
    /\ coefficients_polynomial = None
    /\ bit_stream = None
    /\ written = <<>>
    /\ task_monitor = None
    /\ calls = <<>>

\* no mixnet object has been made
MixnetUnused ==
    /\ collection = None
    /\ mapping = None
    /\ shuffled_collection = None

CombinatorUnused ==
    /\ MixnetUnused
    /\ params = TestParams
    /\ UtilitiesUnused
    /\ public_key = None
    /\ ciphertext = None
    /\ trustees_partial_decryptions = <<>>
    /\ threshold_private_keys = <<>>
    /\ plaintext = <<>>

CombinatorUnchanged ==
    UNCHANGED <<public_key, ciphertext, trustees_partial_decryptions,
                threshold_private_keys, plaintext,
                collection, mapping, shuffled_collection, params,
                coefficients_polynomial, bit_stream, written, task_monitor, calls>>

\* ThresholdEncryptionSetUp.__init__(cryptosystem, num_trustees, threshold)
SetUpInit ==
    /\ num_trustees \in 1..SetUpMaxTrustees
    /\ threshold \in 1..num_trustees
    /\ trustees_simple_public_keys = NoneList(num_trustees)
    /\ trustees_commitments = [o \in SetUpObjects |-> NoneList(num_trustees)]
    /\ CombinatorUnused
    /\ result = NoCall

\* add_trustee_public_key that takes the second registration of a trustee for
\* the withdrawal of its key
add_trustee_public_key_withdrawing(trustee) ==
    /\ IF ~(1 <= trustee /\ trustee <= num_trustees)
       THEN /\ result' = Returned("add_trustee_public_key", trustee, None, Raise("ValueError"))
            /\ UNCHANGED trustees_simple_public_keys
       ELSE /\ trustees_simple_public_keys' =
                  [trustees_simple_public_keys EXCEPT
                      ![trustee] = IF @ = None THEN TrusteePublicKey(trustee) ELSE None]
            /\ result' = Returned("add_trustee_public_key", trustee,
                                  TrusteePublicKey(trustee), None)
    /\ UNCHANGED <<num_trustees, threshold, trustees_commitments>>
    /\ CombinatorUnchanged

\* ThresholdEncryptionSetUp.add_trustee_public_key(trustee, public_key)
add_trustee_public_key(trustee) ==
    /\ IF ~(1 <= trustee /\ trustee <= num_trustees)
       THEN /\ result' = Returned("add_trustee_public_key", trustee, None, Raise("ValueError"))
            /\ UNCHANGED trustees_simple_public_keys
       ELSE /\ trustees_simple_public_keys' =
                  [trustees_simple_public_keys EXCEPT ![trustee] = TrusteePublicKey(trustee)]
            /\ result' = Returned("add_trustee_public_key", trustee,
                                  TrusteePublicKey(trustee), None)
    /\ UNCHANGED <<num_trustees, threshold, trustees_commitments>>
    /\ CombinatorUnchanged

\* add_trustee_commitment without the comparison of thresholds
add_trustee_commitment_any_threshold(o, trustee, commitment) ==
    /\ IF ~(1 <= trustee /\ trustee <= num_trustees)
       THEN /\ result' = Returned("add_trustee_commitment", trustee, commitment,
                                  Raise("ValueError"))
            /\ UNCHANGED trustees_commitments
       ELSE IF \/ cryptosystem # commitment.cryptosystem
               \/ num_trustees # commitment.num_trustees
       THEN /\ result' = Returned("add_trustee_commitment", trustee, commitment,
                                  Raise("IncompatibleCommitmentError"))
            /\ UNCHANGED trustees_commitments
       ELSE /\ trustees_commitments' =
                  [trustees_commitments EXCEPT ![o][trustee] = commitment]
            /\ result' = Returned("add_trustee_commitment", trustee, commitment, None)
    /\ UNCHANGED <<num_trustees, threshold, trustees_simple_public_keys>>
    /\ CombinatorUnchanged

\* ThresholdEncryptionSetUp.add_trustee_commitment(trustee, commitment)
add_trustee_commitment(o, trustee, commitment) ==
    /\ IF ~(1 <= trustee /\ trustee <= num_trustees)
       THEN /\ result' = Returned("add_trustee_commitment", trustee, commitment,
                                  Raise("ValueError"))
            /\ UNCHANGED trustees_commitments
       ELSE IF \/ cryptosystem # commitment.cryptosystem
               \/ num_trustees # commitment.num_trustees
               \/ threshold # commitment.threshold
       THEN /\ result' = Returned("add_trustee_commitment", trustee, commitment,
                                  Raise("IncompatibleCommitmentError"))
            /\ UNCHANGED trustees_commitments
       ELSE /\ trustees_commitments' =
                  [trustees_commitments EXCEPT ![o][trustee] = commitment]
            /\ result' = Returned("add_trustee_commitment", trustee, commitment, None)
    /\ UNCHANGED <<num_trustees, threshold, trustees_simple_public_keys>>
    /\ CombinatorUnchanged

SetUpUnchanged ==
    UNCHANGED <<num_trustees, threshold, trustees_simple_public_keys,
                trustees_commitments>>

\* a call of generate_commitment()
GenerateCommitment(coefficients, ks) ==
    /\ result' = Returned("generate_commitment", 0, None,
                          generate_commitment(cryptosystem, num_trustees, threshold,
                                              trustees_simple_public_keys,
                                              coefficients, ks))
    /\ SetUpUnchanged
    /\ CombinatorUnchanged

\* a call of get_fingerprint()
GetFingerprint(o) ==
    /\ result' = Returned("get_fingerprint", 0, None,
                          get_fingerprint(trustees_commitments[o]))
    /\ SetUpUnchanged
    /\ CombinatorUnchanged

\* a call of generate_public_key()
GeneratePublicKey(o) ==
    /\ result' = Returned("generate_public_key", 0, None,
                          generate_public_key(cryptosystem, num_trustees, threshold,
                                              trustees_commitments[o]))
    /\ SetUpUnchanged
    /\ CombinatorUnchanged

\* a call of generate_key_pair(current_trustee, simple_private_key)
GenerateKeyPair(o, current_trustee, simple_private_key) ==
    /\ result' = Returned("generate_key_pair", current_trustee, simple_private_key,
                          generate_key_pair(cryptosystem, num_trustees, threshold,
                                            trustees_commitments[o], current_trustee,
                                            simple_private_key))
    /\ SetUpUnchanged
    /\ CombinatorUnchanged

SetUpNext ==
    \/ \E trustee \in 0..num_trustees : add_trustee_public_key(trustee)
    \/ \E coefficients \in CoefficientDraws(threshold), ks \in EncryptionDraws(num_trustees) :
          GenerateCommitment(coefficients, ks)
    \/ \E trustee \in 0..num_trustees,
          commitment \in CommitmentInputs(num_trustees, threshold) :
          add_trustee_commitment("tSetUp", trustee, commitment)
    \/ GetFingerprint("tSetUp")
    \/ GeneratePublicKey("tSetUp")
    \/ \E current_trustee \in 1..num_trustees, owner \in 1..num_trustees :
          GenerateKeyPair("tSetUp", current_trustee, TrusteePrivateKey(owner))

SpecSetUp == SetUpInit /\ [][SetUpNext]_vars

(***************************************************************************)
(* ThresholdPrivateKey.generate_partial_decryption and PartialDecryption.  *)
(***************************************************************************)
PartialDecryptionBlockProof(a, b, t) ==
    [class |-> "PartialDecryptionBlockProof", a |-> a, b |-> b, t |-> t]

PartialDecryptionBlock(value, proof) ==
    [class |-> "PartialDecryptionBlock", value |-> value, proof |-> proof]

PartialDecryption(nbits, blocks) ==
    [class |-> "PartialDecryption", nbits |-> nbits, blocks |-> blocks]

\* c = int(SHA256(hex(a), hex(b), hex(y), hex(value)).hexdigest(), 16)
Challenge(cs, a, b, y, value) ==
    DigestToInt(SHA256(<<a, b, y, value>>).hexdigest, get_prime(cs))

\* ThresholdPrivateKey.generate_partial_decryption(ciphertext, force=force);
\* draws[i] is the random s in [1, q - 1] of block i
generate_partial_decryption(private_key, ct, force, draws) ==
    IF ~force /\ ct.nbits # get_nbits(private_key.cryptosystem)
    THEN Raise("IncompatibleCiphertextError")
    ELSE IF ~force /\ ct.pk_fingerprint # ThresholdPublicKey_get_fingerprint(private_key.public_key)
    THEN Raise("IncompatibleCiphertextError")
    ELSE
    LET nbits == get_nbits(private_key.cryptosystem)
        prime == get_prime(private_key.cryptosystem)
        generator == get_generator(private_key.cryptosystem)
        key == private_key.key
        Block(i) ==
            LET gamma == ct.blocks[i][1]
                value == pow(gamma, key, prime)
                s == draws[i]
                a == pow(generator, s, prime)
                b == pow(gamma, s, prime)
                c == Challenge(private_key.cryptosystem, a, b,
                               pow(generator, 2 * key, prime), value)
                t == (s + 2 * key * c) % (prime - 1)
            IN  PartialDecryptionBlock(value, PartialDecryptionBlockProof(a, b, t))
    IN  PartialDecryption(nbits, [i \in 1..Len(ct.blocks) |-> Block(i)])

(***************************************************************************)
(* ThresholdDecryptionCombinator.                                          *)
(***************************************************************************)
\* a verification that checks the first equation of the proof only
ProofValid_first_equation(cs, ppub_key, pair, pd_block) ==
    LET prime == get_prime(cs)
        generator == get_generator(cs)
        a == pd_block.proof.a
        b == pd_block.proof.b
        t == pd_block.proof.t
        c == Challenge(cs, a, b, ppub_key, pd_block.value)
    IN  pow(generator, t, prime) = (a * pow(ppub_key, c, prime)) % prime

\* the two proof checks of add_partial_decryption for one block
ProofValid(cs, ppub_key, pair, pd_block) ==
    LET prime == get_prime(cs)
        generator == get_generator(cs)
        gamma == pair[1]
        a == pd_block.proof.a
        b == pd_block.proof.b
        t == pd_block.proof.t
        c == Challenge(cs, a, b, ppub_key, pd_block.value)
    IN  \* g^t == a * (g^{2P(j)})^c
        /\ pow(generator, t, prime) = (a * pow(ppub_key, c, prime)) % prime
        \* gamma^t == b * (block^2)^c
        /\ pow(gamma, t, prime) = (b * pow(pd_block.value, 2 * c, prime)) % prime

\* what add_partial_decryption(trustee, partial_decryption) raises, or None
add_partial_decryption_check(pk, ct, n, trustee, partial_decryption) ==
    IF ~(0 <= trustee /\ trustee < n) THEN Raise("ValueError")
    ELSE IF partial_decryption.nbits # get_nbits(pk.cryptosystem)
    THEN Raise("InvalidPartialDecryptionError")
    ELSE IF Len(partial_decryption.blocks) # Len(ct.blocks)
    THEN Raise("InvalidPartialDecryptionError")
    ELSE LET ppub_key == get_partial_public_key(pk, trustee)
         IN  IF \E b_index \in 1..Len(partial_decryption.blocks) :
                    ~ProofValid(pk.cryptosystem, ppub_key, ct.blocks[b_index],
                                partial_decryption.blocks[b_index])
             THEN Raise("InvalidPartialDecryptionProofError")
             ELSE None

\* _lagrange_coefficient(indexes, i, x, prime_modulus); indexes is the set of
\* the selected trustees
lagrange_coefficient(indexes, i, x, prime_modulus) ==
    LET RECURSIVE Product(_, _)
        \* the product of (base - j) over the j in js other than i
        Product(js, base) ==
            IF js = {} THEN 1
            ELSE LET j == CHOOSE e \in js : TRUE
                 IN  IF i = j THEN Product(js \ {j}, base)
                     ELSE (base - j) * Product(js \ {j}, base)
        numerator == Product(indexes, x) % prime_modulus
        denominator == Product(indexes, i) % prime_modulus
        inv_denominator == pow(denominator, prime_modulus - 2, prime_modulus)
    IN  (numerator * inv_denominator) % prime_modulus

\* the trustees (1 based) of which decrypt_to_bitstream finds a partial decryption
RegisteredIndexes(n, partial_decryptions) ==
    {trustee \in 1..n : PyGet(partial_decryptions, trustee - 1) # None}

\* a test that also refuses exactly threshold partial decryptions
TooFewPartialDecryptions_or_just_enough(trustee_indexes, k) ==
    Cardinality(trustee_indexes) <= k

\* if(len(trustee_indexes) < self._threshold)
TooFewPartialDecryptions(trustee_indexes, k) ==
    Cardinality(trustee_indexes) < k

\* decrypt_to_bitstream() when random.shuffle puts the trustees of selection first
decrypt_to_bitstream_combined(cs, ct, n, k, partial_decryptions, selection) ==
    IF TooFewPartialDecryptions(RegisteredIndexes(n, partial_decryptions), k)
    THEN Raise("InsuficientPartialDecryptionsError")
    ELSE
    LET prime == get_prime(cs)
        q == (prime - 1) \div 2
        block_size == get_nbits(cs) - 1
        lagrange_coeffs == [trustee \in selection |->
                               lagrange_coefficient(selection, trustee, 0, q)]
        RECURSIVE Val(_, _)
        \* val: the product of pd_block^(2 * l_coeff) over the selected trustees
        Val(trustees, b_index) ==
            IF trustees = {} THEN 1
            ELSE LET trustee == CHOOSE e \in trustees : TRUE
                     p_decryption == PyGet(partial_decryptions, trustee - 1)
                     pd_block == p_decryption.blocks[b_index].value
                     factor == pow(pd_block, 2 * lagrange_coeffs[trustee], prime)
                 IN  (Val(trustees \ {trustee}, b_index) * factor) % prime
        Message(b_index) ==
            LET delta == ct.blocks[b_index][2]
                inv_val == pow(Val(selection, b_index), prime - 2, prime)
            IN  (delta * inv_val) % prime
        blocks == [b_index \in 1..Len(ct.blocks) |-> Message(b_index)]
    IN  \* bitstream.put_num(m, block_size) rejects m >= 2^block_size
        IF \E b_index \in 1..Len(blocks) : blocks[b_index] >= IntPow(2, block_size)
        THEN Raise("ValueError")
        ELSE [class |-> "BitStream", blocks |-> blocks]

(***************************************************************************)
(* Inputs of the decryption.                                               *)
(***************************************************************************)
\* the messages: sequences of blocks, each a number of nbits - 1 bits
Plaintexts == {<<1>>, <<6, 1>>}

\* the draw k in [1, p - 2] of the encryption of block b_index
BlockDraw(b_index) == 1 + ((2 * b_index) % (get_prime(cryptosystem) - 2))

\* ThresholdPublicKey.encrypt_bitstream (inherited from PublicKey) of the blocks
threshold_encrypt(pk, blocks) ==
    Ciphertext(get_nbits(pk.cryptosystem), ThresholdPublicKey_get_fingerprint(pk),
               [b_index \in 1..Len(blocks) |->
                    EncryptBlock(pk.cryptosystem, pk.key, blocks[b_index],
                                 BlockDraw(b_index))])

\* the draws s in [1, q - 1] of the proofs of a partial decryption: one list
\* of draws per first draw
ProofDraws(ct) ==
    {[b_index \in 1..Len(ct.blocks) |-> 1 + ((first + b_index) % (q_of(cryptosystem) - 1))] :
        first \in 0..1}

\* the partial decryptions trustee j generates with its threshold private key
HonestPartialDecryptions(j) ==
    {generate_partial_decryption(threshold_private_keys[j], ciphertext, FALSE, draws) :
        draws \in ProofDraws(ciphertext)}

\* the draws of a run in which all the trustees draw alike
SharedDraws(ct) == CHOOSE draws \in ProofDraws(ct) : draws[1] = 2

\* the partial decryption of trustee j in such a run
TrusteePartialDecryption(j) ==
    generate_partial_decryption(threshold_private_keys[j], ciphertext, FALSE,
                                SharedDraws(ciphertext))

TrusteesPartialDecryptions ==
    {TrusteePartialDecryption(j) : j \in 1..num_trustees}

\* partial decryptions generated with a share that is not trustee j's
WrongSharePartialDecryptions(j) ==
    {generate_partial_decryption([threshold_private_keys[j] EXCEPT !.key = share],
                                 ciphertext, FALSE, SharedDraws(ciphertext)) :
        share \in (0..(q_of(cryptosystem) - 1)) \ {threshold_private_keys[j].key}}

\* a partial decryption whose first value was altered after generation
AlterValue(pd) ==
    [pd EXCEPT !.blocks[1].value =
                   (@ * get_generator(cryptosystem)) % get_prime(cryptosystem)]

\* partial decryptions of another block size or of another number of blocks
Malformed(pd) ==
    {[pd EXCEPT !.nbits = @ + 1], [pd EXCEPT !.blocks = Tail(@)]}

\* every partial decryption a caller may hand to add_partial_decryption
PartialDecryptionInputs ==
    LET honest == UNION {HonestPartialDecryptions(j) : j \in 1..num_trustees}
        one == CHOOSE pd \in HonestPartialDecryptions(1) : TRUE
    IN  honest
          \cup UNION {WrongSharePartialDecryptions(j) : j \in 1..num_trustees}
          \cup {AlterValue(pd) : pd \in TrusteesPartialDecryptions}
          \cup Malformed(one)

(***************************************************************************)
(* The combinator of a correctly completed set-up: every trustee           *)
(* registered its public key and an honestly generated commitment, the     *)
(* threshold public key and the trustees' threshold private keys are those *)
(* of generate_key_pair, and the ciphertext encrypts plaintext under the   *)
(* threshold public key.                                                   *)
(***************************************************************************)
CombinatorInit(max_trustees) ==
    /\ num_trustees \in 1..max_trustees
    /\ threshold \in 1..num_trustees
    /\ trustees_simple_public_keys = AllPublicKeys(num_trustees)
    /\ \E commitments \in [1..num_trustees -> HonestCommitments(num_trustees, threshold)] :
          /\ trustees_commitments = [o \in SetUpObjects |-> commitments]
          /\ public_key = generate_public_key(cryptosystem, num_trustees, threshold,
                                              commitments)
          /\ threshold_private_keys =
                [j \in 1..num_trustees |->
                    generate_key_pair(cryptosystem, num_trustees, threshold, commitments,
                                      j, TrusteePrivateKey(j)).private_key]
    /\ plaintext \in Plaintexts
    \* ThresholdDecryptionCombinator.__init__(public_key, ciphertext, n, threshold)
    /\ ciphertext = threshold_encrypt(public_key, plaintext)
    /\ trustees_partial_decryptions = NoneList(num_trustees)
    /\ MixnetUnused
    /\ params = TestParams
    /\ UtilitiesUnused
    /\ result = NoCall

CombinatorFixed ==
    UNCHANGED <<num_trustees, threshold, trustees_simple_public_keys,
                trustees_commitments, public_key, ciphertext,
                threshold_private_keys, plaintext,
                collection, mapping, shuffled_collection, params,
                coefficients_polynomial, bit_stream, written, task_monitor, calls>>

\* ThresholdDecryptionCombinator.add_partial_decryption(trustee, partial_decryption)
add_partial_decryption(trustee, partial_decryption) ==
    LET raised == add_partial_decryption_check(public_key, ciphertext, num_trustees,
                                               trustee, partial_decryption)
    IN  /\ result' = Returned("add_partial_decryption", trustee, partial_decryption, raised)
        /\ IF IsException(raised)
           THEN UNCHANGED trustees_partial_decryptions
           ELSE \* self._trustees_partial_decryptions[trustee] = partial_decryption
                trustees_partial_decryptions' =
                    [trustees_partial_decryptions EXCEPT ![trustee + 1] = partial_decryption]
        /\ CombinatorFixed

\* the prefixes of length threshold random.shuffle can leave in trustee_indexes
Selections ==
    LET registered == RegisteredIndexes(num_trustees, trustees_partial_decryptions)
    IN  IF Cardinality(registered) < threshold THEN {{}}
        ELSE {selection \in SUBSET registered : Cardinality(selection) = threshold}

\* ThresholdDecryptionCombinator.decrypt_to_bitstream()
DecryptToBitstream(selection) ==
    /\ result' = Returned("decrypt_to_bitstream", 0,
                          [class |-> "list", items |-> selection],
                          decrypt_to_bitstream_combined(cryptosystem, ciphertext,
                                                        num_trustees, threshold,
                                                        trustees_partial_decryptions,
                                                        selection))
    /\ UNCHANGED trustees_partial_decryptions
    /\ CombinatorFixed

\* the decryption: the trustees register the partial decryptions they
\* generated, under any number, and the combinator decrypts
Init == CombinatorInit(MaxTrustees)

Next ==
    \/ \E trustee \in 0..num_trustees,
          partial_decryption \in TrusteesPartialDecryptions :
          add_partial_decryption(trustee, partial_decryption)
    \/ \E selection \in Selections : DecryptToBitstream(selection)

Spec == Init /\ [][Next]_vars

\* the verification: callers hand in partial decryptions of every kind
AddInit == CombinatorInit(AddMaxTrustees)

AddNext ==
    \E trustee \in 0..num_trustees,
       partial_decryption \in PartialDecryptionInputs :
       add_partial_decryption(trustee, partial_decryption)

SpecAdd == AddInit /\ [][AddNext]_vars

(***************************************************************************)
(* Properties of the set-up protocol.                                      *)
(***************************************************************************)
AllCommitmentsLoaded(o) ==
    \A i \in 1..num_trustees : trustees_commitments[o][i] # None

\* the product over k < threshold of public_coefficients[k]^(2 * j^k) mod p
\* for one commitment
CoefficientProduct(commitment, j) ==
    LET prime == get_prime(cryptosystem)
        RECURSIVE Upto(_)
        Upto(k) ==
            IF k = 0 THEN 1
            ELSE (Upto(k - 1) *
                  pow(commitment.public_coefficients[k], 2 * IntPow(j, k - 1), prime)) % prime
    IN  Upto(Len(commitment.public_coefficients))

\* the product of CoefficientProduct over all commitments of set-up object o
AggregateCoefficientProduct(o, j) ==
    LET prime == get_prime(cryptosystem)
        RECURSIVE Upto(_)
        Upto(i) ==
            IF i = 0 THEN 1
            ELSE (Upto(i - 1) * CoefficientProduct(trustees_commitments[o][i], j)) % prime
    IN  Upto(num_trustees)

\* C6: the partial public key generate_public_key returns for trustee j is the
\* product over all commitments i and all k < threshold of
\* public_coefficients_i[k]^(2 * j^k) mod p
C6_PartialPublicKeysFromCoefficients ==
    (result.op = "generate_public_key" /\ result.value.class = "ThresholdPublicKey")
        => \A j \in 1..num_trustees :
              get_partial_public_key(result.value, j) = AggregateCoefficientProduct("tSetUp", j)

\* the share of commitment c addressed to current_trustee decrypts under
\* simple_private_key and satisfies g^(2 * share) = CoefficientProduct
SharePasses(c, current_trustee, simple_private_key) ==
    LET bitstream == decrypt_to_bitstream(simple_private_key,
                        c.encrypted_partial_private_keys[current_trustee])
    IN  /\ ~IsException(bitstream)
        /\ pow(get_generator(cryptosystem), 2 * bitstream.number, get_prime(cryptosystem))
              = CoefficientProduct(c, current_trustee)

C9_CommitmentNeedsAllPublicKeys ==
    result.op = "generate_commitment" =>
        IF \E j \in 1..num_trustees : trustees_simple_public_keys[j] = None
        THEN result.value = Raise("ThresholdEncryptionSetUpStateError")
        ELSE /\ result.value.class = "ThresholdEncryptionCommitment"
             /\ Len(result.value.public_coefficients) = threshold
             /\ Len(result.value.encrypted_partial_private_keys) = num_trustees

C9_Witness ==
    /\ result.op = "generate_commitment"
    /\ result.value.class = "ThresholdEncryptionCommitment"
    /\ num_trustees >= 2
    /\ threshold >= 2

\* C10: while a commitment slot is empty, get_fingerprint and
\* generate_public_key raise ThresholdEncryptionSetUpStateError
C10_NoResultFromPartialCommitments ==
    (result.op \in {"get_fingerprint", "generate_public_key"}
        /\ ~AllCommitmentsLoaded("tSetUp"))
        => result.value = Raise("ThresholdEncryptionSetUpStateError")

\* generate_public_key was called with one slot filled and one empty
C10_Witness ==
    /\ result.op = "generate_public_key"
    /\ \E i \in 1..num_trustees : trustees_commitments["tSetUp"][i] = None
    /\ \E i \in 1..num_trustees : trustees_commitments["tSetUp"][i] # None
    /\ result.value = Raise("ThresholdEncryptionSetUpStateError")

\* C11: generate_key_pair, called by a trustee with their own private key
\* while a commitment slot is empty, raises ThresholdEncryptionSetUpStateError
\* whichever slots are empty and whatever the registered commitments contain
C11_KeyPairNeedsAllCommitments ==
    (/\ result.op = "generate_key_pair"
     /\ result.argument = TrusteePrivateKey(result.trustee)
     /\ ~AllCommitmentsLoaded("tSetUp"))
        => result.value = Raise("ThresholdEncryptionSetUpStateError")

\* the compatibility test of add_trustee_commitment
Incompatible(commitment) ==
    \/ cryptosystem # commitment.cryptosystem
    \/ num_trustees # commitment.num_trustees
    \/ threshold # commitment.threshold

\* the step is a call of add_trustee_commitment with a commitment made for
\* another cryptosystem, number of trustees or threshold
IncompatibleCommitmentAdded ==
    /\ result'.op = "add_trustee_commitment"
    /\ Incompatible(result'.argument)

\* C12: add_trustee_commitment with a commitment whose cryptosystem,
\* num_trustees or threshold differs from the set-up's raises
\* IncompatibleCommitmentError (for a trustee number the set-up has) and
\* leaves every commitment slot as it was
C12_IncompatibleCommitmentRejected ==
    [][IncompatibleCommitmentAdded =>
        /\ result'.trustee \in 1..num_trustees
              => result'.value = Raise("IncompatibleCommitmentError")
        /\ IsException(result'.value)
        /\ trustees_commitments' = trustees_commitments]_vars

\* an incompatible commitment was refused for a slot that already held one
C12_Witness ==
    /\ result.op = "add_trustee_commitment"
    /\ result.value = Raise("IncompatibleCommitmentError")
    /\ result.argument.threshold # threshold
    /\ trustees_commitments["tSetUp"][result.trustee] # None

(***************************************************************************)
(* Two set-up objects compared by fingerprint.  Each object has been fed   *)
(* commitments by add_trustee_commitment (any compatible commitment is     *)
(* accepted in any slot); result keeps, per object, what get_fingerprint   *)
(* and generate_public_key returned.                                       *)
(***************************************************************************)
FingerprintInputs(n, k) ==
    LET honest == HonestCommitments(n, k)
        one == CHOOSE c \in honest : TRUE
    IN  honest \cup {TamperPartialPublicKey(one, 1)}

FingerprintInit ==
    /\ num_trustees \in 1..SetUpMaxTrustees
    /\ threshold \in 1..num_trustees
    /\ trustees_simple_public_keys = AllPublicKeys(num_trustees)
    /\ trustees_commitments \in
          [SetUpObjects ->
              [1..num_trustees -> FingerprintInputs(num_trustees, threshold) \cup {None}]]
    /\ CombinatorUnused
    /\ result = [o \in SetUpObjects |-> [fingerprint |-> None, public_key |-> None]]

FingerprintOf(o) ==
    /\ result' = [result EXCEPT ![o].fingerprint = get_fingerprint(trustees_commitments[o])]
    /\ SetUpUnchanged
    /\ CombinatorUnchanged

PublicKeyOf(o) ==
    /\ result' = [result EXCEPT ![o].public_key =
                      generate_public_key(cryptosystem, num_trustees, threshold,
                                          trustees_commitments[o])]
    /\ SetUpUnchanged
    /\ CombinatorUnchanged

FingerprintNext ==
    \/ \E o \in SetUpObjects : FingerprintOf(o)
    \/ \E o \in SetUpObjects : PublicKeyOf(o)

SpecFingerprint == FingerprintInit /\ [][FingerprintNext]_vars

\* C8: two set-up objects that return the same fingerprint both hold all
\* commitments and the same ones, and derive the same threshold public key
\* and the same partial public keys
C8_SameFingerprintSameKeys ==
    ( /\ result["tSetUp"].fingerprint.class = "sha256"
      /\ result["tSetUp"].fingerprint = result["tSetUp2"].fingerprint )
    => /\ AllCommitmentsLoaded("tSetUp")
       /\ AllCommitmentsLoaded("tSetUp2")
       /\ trustees_commitments["tSetUp"] = trustees_commitments["tSetUp2"]
       /\ ( /\ result["tSetUp"].public_key # None
            /\ result["tSetUp2"].public_key # None )
          => result["tSetUp"].public_key = result["tSetUp2"].public_key

(***************************************************************************)
(* Properties of the decryption.                                           *)
(***************************************************************************)
\* the partial decryption add_partial_decryption(trustee, ...) stored
StoredFor(trustee) == PyGet(trustees_partial_decryptions, trustee)

\* the numbers under which a partial decryption was registered
RegisteredNumbers == {trustee \in 0..(num_trustees - 1) : StoredFor(trustee) # None}

\* every registered partial decryption was generated by the trustee under
\* whose number (1 to n) it was registered, with that trustee's threshold
\* private key
OwnRegistrations ==
    \A trustee \in RegisteredNumbers :
        /\ 1 <= trustee
        /\ StoredFor(trustee) \in HonestPartialDecryptions(trustee)

DecryptReturned(value) ==
    /\ result.op = "decrypt_to_bitstream"
    /\ result.value = value

\* C1: whenever at least threshold trustees registered the partial decryption
\* each generated with its own threshold private key, decrypt_to_bitstream
\* returns exactly the encrypted plaintext, whichever threshold trustees it
\* combines.
C1_ThresholdDecryptionCorrect ==
    (/\ result.op = "decrypt_to_bitstream"
     /\ OwnRegistrations
     /\ Cardinality(RegisteredNumbers) >= threshold)
    => result.value = [class |-> "BitStream", blocks |-> plaintext]

\* C2: the example scenario, at the scale of the model: in a scheme of more
\* trustees than the threshold, after exactly the trustees 1 to threshold
\* registered the partial decryptions they generated, decrypt_to_bitstream
\* recovers the original message.
C2_ExampleScenarioRecoversMessage ==
    (/\ result.op = "decrypt_to_bitstream"
     /\ 1 < threshold
     /\ threshold < num_trustees
     /\ RegisteredNumbers = 1..threshold
     /\ \A trustee \in 1..threshold :
            StoredFor(trustee) \in HonestPartialDecryptions(trustee))
    => DecryptReturned([class |-> "BitStream", blocks |-> plaintext])

\* C5: decrypt_to_bitstream raises InsuficientPartialDecryptionsError exactly
\* when fewer than threshold partial decryptions are registered.
C5_InsufficientIffFewerThanThreshold ==
    result.op = "decrypt_to_bitstream" =>
        (result.value = Raise("InsuficientPartialDecryptionsError")
            <=> Cardinality({slot \in 1..Len(trustees_partial_decryptions) :
                                trustees_partial_decryptions[slot] # None}) < threshold)

\* some but fewer than threshold partial decryptions are registered and
\* decrypt_to_bitstream raised
C5_Witness ==
    /\ DecryptReturned(Raise("InsuficientPartialDecryptionsError"))
    /\ RegisteredNumbers # {}

(***************************************************************************)
(* Properties of the verification of partial decryptions.                  *)
(***************************************************************************)
\* the share committed to trustee j: the key of its threshold private key
CommittedShare(j) == threshold_private_keys[j].key

\* the challenge of the proof of a block against y
ChallengeAgainst(y, pd_block) ==
    Challenge(cryptosystem, pd_block.proof.a, pd_block.proof.b, y, pd_block.value)

\* the commitment g^{2P(j)} to the share of trustee j
ShareCommitment(j) ==
    pow(get_generator(cryptosystem), 2 * CommittedShare(j), get_prime(cryptosystem))

\* the proof is sound for the challenges that are not multiples of q: no
\* challenge of the partial decryption, against the commitment to the share
\* or against the published partial public key of trustee j, falls in the
\* soundness error
OutsideSoundnessError(j, partial_decryption) ==
    \A b_index \in 1..Len(partial_decryption.blocks) :
        \A y \in {ShareCommitment(j), get_partial_public_key(public_key, j)} :
            ChallengeAgainst(y, partial_decryption.blocks[b_index])
                % q_of(cryptosystem) # 0

\* the partial decryptions that are not what trustee j's share produces
ForgedPartialDecryptions(j) ==
    WrongSharePartialDecryptions(j)
        \cup {AlterValue(TrusteePartialDecryption(j))}

\* C3: add_partial_decryption rejects, with InvalidPartialDecryptionProofError,
\* a partial decryption registered for a trustee that was produced with a
\* share other than the one committed to that trustee, or whose value was
\* altered after generation.
C3_ForgedPartialDecryptionRejected ==
    (/\ result.op = "add_partial_decryption"
     /\ result.trustee \in 1..(num_trustees - 1)
     /\ result.argument \in ForgedPartialDecryptions(result.trustee)
     /\ OutsideSoundnessError(result.trustee, result.argument))
    => result.value = Raise("InvalidPartialDecryptionProofError")

\* both equations of the proof of a block hold against partial public key y
ProofEquationsHold(y, pair, pd_block) ==
    LET prime == get_prime(cryptosystem)
        c == pd_block.proof.a + prime * pd_block.proof.b + prime * prime * y
                + prime * prime * prime * pd_block.value
    IN  /\ pow(get_generator(cryptosystem), pd_block.proof.t, prime)
               = (pd_block.proof.a * pow(y, c, prime)) % prime
        /\ pow(pair[1], pd_block.proof.t, prime)
               = (pd_block.proof.b * pow(pd_block.value, 2 * c, prime)) % prime

StoredVerified ==
    \A trustee \in RegisteredNumbers :
        LET pd == StoredFor(trustee)
        IN  /\ pd.nbits = ciphertext.nbits
            /\ Len(pd.blocks) = Len(ciphertext.blocks)
            /\ \A b_index \in 1..Len(pd.blocks) :
                   ProofEquationsHold(
                       get_partial_public_key(public_key, trustee),
                       ciphertext.blocks[b_index], pd.blocks[b_index])

RaisingCallKeepsStore ==
    IsException(result'.value)
        => trustees_partial_decryptions' = trustees_partial_decryptions

BitStream(bits, pos) == [class |-> "BitStream", bits |-> bits, pos |-> pos]

get_length(bitstream) == Len(bitstream.bits)

get_current_pos(bitstream) == bitstream.pos

\* BitStream.seek(pos)
seek(bitstream, pos) ==
    IF pos > get_length(bitstream) THEN Raise("IndexError")
    ELSE BitStream(bitstream.bits, pos)

\* num < 2**bit_length, the test of put_num (the numbers of the model are
\* below 2**31)
Representable(num, bit_length) ==
    bit_length >= 31 \/ num < IntPow(2, bit_length)

\* the bit_length binary digits of num, most significant first
BinaryDigits(num, bit_length) ==
    [i \in 1..bit_length |->
        IF bit_length - i >= 31 THEN 0
        ELSE (num \div IntPow(2, bit_length - i)) % 2]

RECURSIVE DigitsValue(_)
\* the number a sequence of bits stands for, most significant first
DigitsValue(bits) ==
    IF Len(bits) = 0 THEN 0
    ELSE IF Len(bits) = 1 THEN bits[1]
    ELSE LET low_length == Len(bits) \div 2
             high == DigitsValue(SubSeq(bits, 1, Len(bits) - low_length))
             low == DigitsValue(SubSeq(bits, Len(bits) - low_length + 1, Len(bits)))
         IN  IF high = 0 THEN low ELSE high * IntPow(2, low_length) + low

\* BitStream.put_num(num, bit_length): writes at the current position, over
\* the bits already there, and moves the position behind what it wrote
put_num(bitstream, num, bit_length) ==
    IF ~Representable(num, bit_length) THEN Raise("ValueError")
    ELSE LET end == bitstream.pos + bit_length
         IN  BitStream(SubSeq(bitstream.bits, 1, bitstream.pos)
                          \o BinaryDigits(num, bit_length)
                          \o SubSeq(bitstream.bits, end + 1, Len(bitstream.bits)),
                       end)

\* the test that makes get_num and get_string raise NotEnoughBitsInStreamError
NotEnoughBitsInStream(bitstream, bit_length) ==
    bit_length > get_length(bitstream) - get_current_pos(bitstream)

\* the number BitStream.get_num(bit_length) returns when the bits are there
get_num(bitstream, bit_length) ==
    DigitsValue(SubSeq(bitstream.bits, bitstream.pos + 1, bitstream.pos + bit_length))

\* the stream after get_num(bit_length)
after_get_num(bitstream, bit_length) ==
    BitStream(bitstream.bits, bitstream.pos + bit_length)

\* for step_size in [4096, 512, 64, 8, 1]
CopyStepSizes == <<4096, 512, 64, 8, 1>>

RECURSIVE put_bitstream_copy_steps(_, _, _, _)
put_bitstream_copy_steps(self, bitstream, to_copy, s) ==
    IF s > Len(CopyStepSizes) THEN self
    ELSE IF to_copy >= CopyStepSizes[s]
         THEN put_bitstream_copy_steps(
                  put_num(self, get_num(bitstream, CopyStepSizes[s]), CopyStepSizes[s]),
                  after_get_num(bitstream, CopyStepSizes[s]),
                  to_copy - CopyStepSizes[s], s)
         ELSE put_bitstream_copy_steps(self, bitstream, to_copy, s + 1)

\* BitStream.put_bitstream_copy(bitstream)
put_bitstream_copy(self, bitstream) ==
    put_bitstream_copy_steps(self, bitstream,
                             get_length(bitstream) - get_current_pos(bitstream), 1)

\* a Python byte string, as the sequence of its byte values
Str(bytes) == [class |-> "str", bytes |-> bytes]

RECURSIVE put_string_bytes(_, _, _)
put_string_bytes(bitstream, bytes, i) ==
    IF i > Len(bytes) THEN bitstream
    ELSE put_string_bytes(put_num(bitstream, bytes[i], 8), bytes, i + 1)

\* BitStream.put_string(string): put_byte(ord(char)) for each char
put_string(bitstream, string) == put_string_bytes(bitstream, string.bytes, 1)

\* BitStream.get_string(bit_length)
get_string(bitstream, bit_length) ==
    IF NotEnoughBitsInStream(bitstream, bit_length)
    THEN Raise("NotEnoughBitsInStreamError")
    ELSE IF bit_length % 8 # 0 THEN Raise("ValueError")
    ELSE Str([b \in 1..(bit_length \div 8) |->
                 get_num(after_get_num(bitstream, 8 * (b - 1)), 8)])

(***************************************************************************)
(* PublicKey.encrypt_bitstream / encrypt_text and PrivateKey               *)
(* .decrypt_to_bitstream / decrypt_to_text with the format of Ciphertext   *)
(* Note 001: [size (64 bits) | message (size bits) | padding (X bits)].    *)
(* The random draws are arguments: padding_draws for the padding put in    *)
(* the stream, last_padding for the bits that fill the last block, ks for  *)
(* the k of each block.                                                    *)
(***************************************************************************)
SIZE_BLOCK_LENGTH == 64

\* the padding is written in pieces of at most 1024 bits
PaddingPiece == 1024

\* a Python int where None may stand instead
PyInt(value) == [class |-> "int", value |-> value]

\* full_length of encrypt_bitstream
FullLength(unpadded_length, pad_to) ==
    IF pad_to # None /\ (pad_to.value * 8) > unpadded_length
    THEN pad_to.value * 8
    ELSE unpadded_length

RECURSIVE PutPadding(_, _, _, _)
\* while(padding_left > 1024) ... if(padding_left > 0) ...
PutPadding(formated_bitstream, padding_left, padding_draws, i) ==
    IF IsException(formated_bitstream) THEN formated_bitstream
    ELSE IF padding_left > PaddingPiece
         THEN PutPadding(put_num(formated_bitstream, padding_draws[i], PaddingPiece),
                         padding_left - PaddingPiece, padding_draws, i + 1)
    ELSE IF padding_left > 0
         THEN put_num(formated_bitstream, padding_draws[i], padding_left)
    ELSE formated_bitstream

\* PART 1 of encrypt_bitstream: the formated bitstream, or the error raised
FormatBitstream(bitstream, pad_to, padding_draws) ==
    LET size_in_bits == get_length(bitstream)
    IN  IF ~Representable(size_in_bits, SIZE_BLOCK_LENGTH) THEN Raise("ValueError")
        ELSE LET sized == put_num(BitStream(<<>>, 0), size_in_bits, SIZE_BLOCK_LENGTH)
                 copied == put_bitstream_copy(sized, seek(bitstream, 0))
                 unpadded_length == get_length(copied)
                 padding_left == FullLength(unpadded_length, pad_to) - unpadded_length
             IN  PutPadding(copied, padding_left, padding_draws, 1)

\* PART 2 of encrypt_bitstream: the (gamma, delta) pairs appended.  The
\* loop reads block i at position (i - 1) * block_size; the last block may
\* hold fewer bits and is then filled up with last_padding.
EncryptBlocks(pk, formated_bitstream, plaintext_bits_left, last_padding, ks) ==
    LET block_size == get_nbits(pk.cryptosystem) - 1
        blocks == (plaintext_bits_left + block_size - 1) \div block_size
        at(i) == after_get_num(formated_bitstream, (i - 1) * block_size)
        left(i) == plaintext_bits_left - (i - 1) * block_size
        displacement(i) == block_size - left(i)
        \* (block << displacement) | padding, padding < 2**displacement
        block(i) == IF left(i) >= block_size
                    THEN get_num(at(i), block_size)
                    ELSE get_num(at(i), left(i)) * IntPow(2, displacement(i))
                             + last_padding
    IN  [i \in 1..blocks |-> EncryptBlock(pk.cryptosystem, pk.key, block(i), ks[i])]

\* PublicKey.encrypt_bitstream(bitstream, pad_to)
PublicKey_encrypt_bitstream(pk, bitstream, pad_to, padding_draws, last_padding, ks) ==
    LET formated_bitstream == FormatBitstream(bitstream, pad_to, padding_draws)
    IN  IF IsException(formated_bitstream) THEN formated_bitstream
        ELSE Ciphertext(get_nbits(pk.cryptosystem), PublicKey_get_fingerprint(pk),
                        EncryptBlocks(pk, seek(formated_bitstream, 0),
                                      get_length(formated_bitstream),
                                      last_padding, ks))

\* PublicKey.encrypt_text(text, pad_to)
PublicKey_encrypt_text(pk, text, pad_to, padding_draws, last_padding, ks) ==
    PublicKey_encrypt_bitstream(pk, put_string(BitStream(<<>>, 0), text), pad_to,
                                padding_draws, last_padding, ks)

\* for gamma, delta in ciphertext: ... bitstream.put_num(m, block_size).
\* The loop stops at the first block that fails the assertion or whose m
\* put_num refuses; otherwise the stream holds the digits of every m.
DecryptBlocks(sk, blocks) ==
    LET block_size == get_nbits(sk.cryptosystem) - 1
        m(i) == DecryptBlock(sk.cryptosystem, sk.key, blocks[i])
        too_large(i) == ~(/\ blocks[i][1] < IntPow(2, block_size + 1)
                          /\ blocks[i][2] < IntPow(2, block_size + 1))
        failing == {i \in 1..Len(blocks) : too_large(i) \/ ~Representable(m(i), block_size)}
        first == CHOOSE i \in failing : \A j \in failing : i <= j
    IN  IF failing # {}
        THEN IF too_large(first) THEN Raise("AssertionError") ELSE Raise("ValueError")
        ELSE BitStream([b \in 1..(Len(blocks) * block_size) |->
                           BinaryDigits(m(((b - 1) \div block_size) + 1),
                                        block_size)[((b - 1) % block_size) + 1]],
                       Len(blocks) * block_size)

\* the test of the fingerprint alone
IncompatibleCiphertext_fingerprint_only(sk, ct) ==
    ct.pk_fingerprint # PublicKey_get_fingerprint(sk.public_key)

\* the two tests of decrypt_to_bitstream made if(not force)
IncompatibleCiphertext(sk, ct) ==
    \/ ct.nbits # get_nbits(sk.cryptosystem)
    \/ ct.pk_fingerprint # PublicKey_get_fingerprint(sk.public_key)

\* PrivateKey.decrypt_to_bitstream(ciphertext, force=force)
PrivateKey_decrypt_to_bitstream(sk, ct, force) ==
    IF ~force /\ IncompatibleCiphertext(sk, ct)
    THEN Raise("IncompatibleCiphertextError")
    ELSE DecryptBlocks(sk, ct.blocks)

\* PrivateKey.decrypt_to_text(ciphertext, force=force)
PrivateKey_decrypt_to_text(sk, ct, force) ==
    LET bitstream == PrivateKey_decrypt_to_bitstream(sk, ct, force)
    IN  IF IsException(bitstream) THEN bitstream
        ELSE LET start == seek(bitstream, 0)
             IN  IF NotEnoughBitsInStream(start, 64)
                 THEN Raise("NotEnoughBitsInStreamError")
                 ELSE get_string(after_get_num(start, 64), get_num(start, 64))

(***************************************************************************)
(* Encryption and decryption of a text.  plaintext is the text (its byte   *)
(* values), public_key the key it is encrypted under, ciphertext the last  *)
(* ciphertext encrypt_text returned.                                       *)
(***************************************************************************)
\* the key pairs in use: two of the model cryptosystem, one of another size
KeyPairNumbers == 1..3

KeyPairPrivateKey(j) ==
    IF j <= 2 THEN TrusteePrivateKey(j)
    ELSE PrivateKey(second_cryptosys,
                    PublicKey(second_cryptosys,
                              pow(get_generator(second_cryptosys), 3,
                                  get_prime(second_cryptosys))),
                    3)

ByteValues == {90, 255}

Texts == UNION {[1..n -> ByteValues] : n \in 0..MaxTextBytes}

\* pad_to: None, zero, or a number of bytes from the size of the length
\* field up to one more than the longest unpadded stream
PadTos ==
    LET size_bytes == SIZE_BLOCK_LENGTH \div 8
    IN  {None, PyInt(0)} \cup {PyInt(n) : n \in size_bytes..(size_bytes + MaxTextBytes + 1)}

\* padding_left of encrypt_bitstream for a text of that many bytes
PaddingLeft(text_bytes, pad_to) ==
    LET unpadded_length == SIZE_BLOCK_LENGTH + 8 * text_bytes
    IN  FullLength(unpadded_length, pad_to) - unpadded_length

\* random.randint(1, 2**padding_left): both ends of the range and two
\* numbers inside
PaddingDraws(padding_left) ==
    IF padding_left = 0 THEN {<<>>}
    ELSE {<<1>>, <<IntPow(2, padding_left - 1) + 1>>,
          <<IntPow(2, padding_left) - 1>>, <<IntPow(2, padding_left)>>}

\* random.randint(0, 2**displacement - 1) for the last block
LastPaddingDraws(text_bytes, pad_to) ==
    LET unpadded_length == SIZE_BLOCK_LENGTH + 8 * text_bytes
        block_size == get_nbits(cryptosystem) - 1
        remainder == FullLength(unpadded_length, pad_to) % block_size
    IN  IF remainder = 0 THEN {0}
        ELSE 0..(IntPow(2, block_size - remainder) - 1)

\* k = random.randint(1, prime - 2) for each block
KDraws(text_bytes, pad_to) ==
    LET unpadded_length == SIZE_BLOCK_LENGTH + 8 * text_bytes
        blocks == (FullLength(unpadded_length, pad_to) \div (get_nbits(cryptosystem) - 1)) + 1
    IN  {[i \in 1..blocks |-> 1 + ((seed + i) % (get_prime(cryptosystem) - 2))] :
            seed \in 0..1}

\* the commitment of a set-up with one trustee, whose threshold key pair the
\* partial decryptions below are made with
OneTrusteeCommitment == CHOOSE c \in HonestCommitments(1, 1) : TRUE

\* a ciphertext relabelled with another bit size
OtherBitSize(ct) == [ct EXCEPT !.nbits = @ + 1]

\* the ciphertexts handed to decrypt_to_bitstream: the one encrypt_text
\* returned, as it is and relabelled
CiphertextsToDecrypt == {ciphertext, OtherBitSize(ciphertext)}

\* the ciphertexts handed to generate_partial_decryption: the one
\* encrypt_text returned and one encrypted under the threshold public key,
\* as it is and relabelled
CiphertextsToDecryptPartially ==
    LET own == threshold_encrypt(threshold_private_keys[1].public_key, <<6, 1>>)
    IN  {ciphertext, own, OtherBitSize(own)}

EncryptionInit ==
    /\ plaintext \in Texts
    /\ public_key \in {KeyPairPrivateKey(j).public_key : j \in 1..2}
    /\ ciphertext = None
    /\ num_trustees = 1
    /\ threshold = 1
    /\ trustees_simple_public_keys = AllPublicKeys(1)
    /\ trustees_commitments = [o \in SetUpObjects |-> <<OneTrusteeCommitment>>]
    /\ trustees_partial_decryptions = <<>>
    /\ threshold_private_keys =
          <<generate_key_pair(cryptosystem, 1, 1, <<OneTrusteeCommitment>>, 1,
                              TrusteePrivateKey(1)).private_key>>
    /\ MixnetUnused
    /\ params = TestParams
    /\ UtilitiesUnused
    /\ result = NoCall

EncryptionFixed ==
    UNCHANGED <<plaintext, public_key, num_trustees, threshold,
                trustees_simple_public_keys, trustees_commitments,
                trustees_partial_decryptions, threshold_private_keys,
                collection, mapping, shuffled_collection, params,
                coefficients_polynomial, bit_stream, written, task_monitor, calls>>

\* ciphertext = public_key.encrypt_text(message, pad_to=pad_to); the text is
\* encrypted until a ciphertext is returned (a later encryption would not
\* depend on it)
EncryptText(pad_to, padding_draws, last_padding, ks) ==
    LET value == PublicKey_encrypt_text(public_key, Str(plaintext), pad_to,
                                        padding_draws, last_padding, ks)
    IN  /\ ciphertext = None
        /\ result' = Returned("encrypt_text", 0, pad_to, value)
        /\ ciphertext' = IF IsException(value) THEN ciphertext ELSE value
        /\ EncryptionFixed

\* private_key.decrypt_to_text(ciphertext)
DecryptToText(j) ==
    /\ ciphertext # None
    /\ result' = Returned("decrypt_to_text", j, [ciphertext |-> ciphertext, force |-> FALSE],
                          PrivateKey_decrypt_to_text(KeyPairPrivateKey(j), ciphertext, FALSE))
    /\ UNCHANGED ciphertext
    /\ EncryptionFixed

\* private_key.decrypt_to_bitstream(ciphertext, force=force)
PrivateKeyDecryptToBitstream(j, ct, force) ==
    /\ ciphertext # None
    /\ result' = Returned("decrypt_to_bitstream", j, [ciphertext |-> ct, force |-> force],
                          PrivateKey_decrypt_to_bitstream(KeyPairPrivateKey(j), ct, force))
    /\ UNCHANGED ciphertext
    /\ EncryptionFixed

\* threshold_private_key.generate_partial_decryption(ciphertext, force=force)
GeneratePartialDecryption(ct, force) ==
    /\ ciphertext # None
    /\ result' = Returned("generate_partial_decryption", 1,
                          [ciphertext |-> ct, force |-> force],
                          generate_partial_decryption(threshold_private_keys[1], ct, force,
                                                      CHOOSE draws \in ProofDraws(ct) : TRUE))
    /\ UNCHANGED ciphertext
    /\ EncryptionFixed

EncryptionNext ==
    \/ \E pad_to \in PadTos :
          \E padding_draws \in PaddingDraws(PaddingLeft(Len(plaintext), pad_to)),
             last_padding \in LastPaddingDraws(Len(plaintext), pad_to),
             ks \in KDraws(Len(plaintext), pad_to) :
             EncryptText(pad_to, padding_draws, last_padding, ks)
    \/ \E j \in KeyPairNumbers : DecryptToText(j)
    \/ \E j \in KeyPairNumbers, ct \in CiphertextsToDecrypt, force \in BOOLEAN :
          PrivateKeyDecryptToBitstream(j, ct, force)
    \/ \E ct \in CiphertextsToDecryptPartially, force \in BOOLEAN :
          GeneratePartialDecryption(ct, force)

SpecEncryption == EncryptionInit /\ [][EncryptionNext]_vars

\* the private key of the pair whose public key encrypted the text
OwnPrivateKey(j) == KeyPairPrivateKey(j).public_key = public_key

WithoutForceOnForeignCiphertext(nbits, fingerprint) ==
    /\ ~result.argument.force
    /\ \/ result.argument.ciphertext.nbits # nbits
       \/ result.argument.ciphertext.pk_fingerprint # fingerprint

\* what the call in result must have done, given the bit size of the key's
\* cryptosystem and the fingerprint of its public key
RaisedAsForceDemands(nbits, fingerprint) ==
    /\ WithoutForceOnForeignCiphertext(nbits, fingerprint)
          => result.value = Raise("IncompatibleCiphertextError")
    /\ result.argument.force => result.value # Raise("IncompatibleCiphertextError")

\* C14: without force, PrivateKey.decrypt_to_bitstream and
\* ThresholdPrivateKey.generate_partial_decryption raise
\* IncompatibleCiphertextError, returning nothing, for every ciphertext whose
\* bit size differs from the cryptosystem's or whose fingerprint differs from
\* the public key's; with force they never raise that error
C14_IncompatibleCiphertextUnlessForced ==
    /\ result.op = "decrypt_to_bitstream" =>
          RaisedAsForceDemands(
              get_nbits(KeyPairPrivateKey(result.trustee).cryptosystem),
              PublicKey_get_fingerprint(KeyPairPrivateKey(result.trustee).public_key))
    /\ result.op = "generate_partial_decryption" =>
          RaisedAsForceDemands(
              get_nbits(threshold_private_keys[1].cryptosystem),
              ThresholdPublicKey_get_fingerprint(threshold_private_keys[1].public_key))

\* generate_partial_decryption refused, without force, a ciphertext of the
\* right bit size that was encrypted under another public key
C14_Witness ==
    /\ result.op = "generate_partial_decryption"
    /\ ~result.argument.force
    /\ result.argument.ciphertext.nbits = get_nbits(threshold_private_keys[1].cryptosystem)
    /\ result.argument.ciphertext.pk_fingerprint = PublicKey_get_fingerprint(public_key)
    /\ result.value = Raise("IncompatibleCiphertextError")

(***************************************************************************)
(* Mixnet: CiphertextCollection, CiphertextReencryptionInfo and            *)
(* CiphertextCollectionMapping.  A Ciphertext held by a collection is an   *)
(* object: id is its identity, value the Ciphertext it is.  Ciphertext     *)
(* defines __eq__ but neither __ne__ nor __cmp__, so a != b between two    *)
(* Ciphertext objects is the default comparison, by identity.              *)
(***************************************************************************)
Object(id, value) == [class |-> "object", id |-> id, value |-> value]

\* a Python bool where an exception may stand instead
Bool(value) == [class |-> "bool", value |-> value]

\* Ciphertext.__eq__(self, other): self.gamma and self.delta are the lists
\* of the first and second components of the blocks
Ciphertext_eq(self, other) ==
    LET gamma(ct) == [i \in 1..Len(ct.blocks) |-> ct.blocks[i][1]]
        delta(ct) == [i \in 1..Len(ct.blocks) |-> ct.blocks[i][2]]
    IN  IF other.class # "Ciphertext" THEN FALSE
        ELSE IF other.nbits # self.nbits THEN FALSE
        ELSE IF other.pk_fingerprint # self.pk_fingerprint THEN FALSE
        ELSE IF gamma(other) # gamma(self) THEN FALSE
        ELSE IF delta(other) # delta(self) THEN FALSE
        ELSE TRUE

\* a != b for two Ciphertext objects: no __ne__, no __cmp__, the identities
\* are compared
Ciphertext_not_equal_operator(a, b) == a.id # b.id

CiphertextCollection(collection_public_key, ciphertexts) ==
    [class |-> "CiphertextCollection", public_key |-> collection_public_key,
     ciphertexts |-> ciphertexts]

\* CiphertextCollection.__eq__(self, other)
CiphertextCollection_eq(self, other) ==
    IF other.class # "CiphertextCollection" THEN FALSE
    ELSE IF Len(other.ciphertexts) # Len(self.ciphertexts) THEN FALSE
    ELSE \A i \in 1..Len(self.ciphertexts) :
            ~Ciphertext_not_equal_operator(other.ciphertexts[i], self.ciphertexts[i])

RECURSIVE random_shuffle_in_place(_, _, _)
\* _random_shuffle_in_place: l[i] = items[p]; del items[p], with p the draws
random_shuffle_in_place(draws, items, i) ==
    IF items = <<>> THEN <<>>
    ELSE LET p == draws[i]
         IN  <<items[p + 1]>>
                \o random_shuffle_in_place(
                       draws,
                       SubSeq(items, 1, p) \o SubSeq(items, p + 2, Len(items)),
                       i + 1)

CiphertextReencryptionInfo(info_public_key, blocks) ==
    [class |-> "CiphertextReencryptionInfo", public_key |-> info_public_key,
     blocks |-> blocks]

\* CiphertextReencryptionInfo.new(public_key, length), rs the draws of r
CiphertextReencryptionInfo_new(info_public_key, length, rs) ==
    LET prime == get_prime(info_public_key.cryptosystem)
        generator == get_generator(info_public_key.cryptosystem)
    IN  CiphertextReencryptionInfo(
            info_public_key,
            [i \in 1..length |-> <<pow(generator, rs[i], prime),
                                   pow(info_public_key.key, rs[i], prime)>>])

\* apply that re-encrypts gamma and leaves delta as it was
CiphertextReencryptionInfo_apply_gamma_only(self, ct) ==
    IF Len(ct.blocks) # Len(self.blocks) THEN Raise("IncompatibleCiphertextError")
    ELSE IF ct.pk_fingerprint # PublicKey_get_fingerprint(self.public_key)
    THEN Raise("IncompatibleCiphertextError")
    ELSE LET prime == get_prime(self.public_key.cryptosystem)
         IN  Ciphertext(get_nbits(self.public_key.cryptosystem), ct.pk_fingerprint,
                        [i \in 1..Len(self.blocks) |->
                            <<(self.blocks[i][1] * ct.blocks[i][1]) % prime,
                              ct.blocks[i][2]>>])

\* CiphertextReencryptionInfo.apply(ciphertext)
CiphertextReencryptionInfo_apply(self, ct) ==
    IF Len(ct.blocks) # Len(self.blocks) THEN Raise("IncompatibleCiphertextError")
    ELSE IF ct.pk_fingerprint # PublicKey_get_fingerprint(self.public_key)
    THEN Raise("IncompatibleCiphertextError")
    ELSE LET prime == get_prime(self.public_key.cryptosystem)
         IN  Ciphertext(get_nbits(self.public_key.cryptosystem), ct.pk_fingerprint,
                        [i \in 1..Len(self.blocks) |->
                            <<(self.blocks[i][1] * ct.blocks[i][1]) % prime,
                              (self.blocks[i][2] * ct.blocks[i][2]) % prime>>])

CiphertextCollectionMapping(reordering, reencryptions) ==
    [class |-> "CiphertextCollectionMapping", reordering |-> reordering,
     reencryptions |-> reencryptions]

\* CiphertextCollectionMapping.new(collection): reordering holds indexes from 0
CiphertextCollectionMapping_new(c, shuffle_draws, rs) ==
    LET length == Len(c.ciphertexts)
    IN  CiphertextCollectionMapping(
            random_shuffle_in_place(shuffle_draws, [i \in 1..length |-> i - 1], 1),
            [i \in 1..length |->
                CiphertextReencryptionInfo_new(c.public_key,
                                               Len(c.ciphertexts[i].value.blocks),
                                               rs[i])])

\* CiphertextCollectionMapping.apply(collection); the Ciphertext objects it
\* makes get the identities (made_by, index)
CiphertextCollectionMapping_apply(self, c, made_by) ==
    LET length == Len(c.ciphertexts)
        reencrypted(i) ==
            CiphertextReencryptionInfo_apply(self.reencryptions[i], c.ciphertexts[i].value)
        \* ciphertexts[index] = reencrypted_ciphertext, the last write stays
        filled(index) == {i \in 1..length : self.reordering[i] = index}
        last(index) == CHOOSE i \in filled(index) : \A j \in filled(index) : j <= i
        temporary == [j \in 1..length |->
                         IF filled(j - 1) = {} THEN None
                         ELSE Object(<<made_by, j>>, reencrypted(last(j - 1)))]
    IN  IF length # Len(self.reencryptions)
        THEN Raise("IncompatibleCiphertextCollectionError")
        ELSE IF \E i \in 1..length : IsException(reencrypted(i))
        THEN Raise("IncompatibleCiphertextCollectionError")
        ELSE IF \E j \in 1..length : temporary[j] = None
        THEN Raise("AttributeError")
        ELSE IF \E j \in 1..length :
                   temporary[j].value.pk_fingerprint # PublicKey_get_fingerprint(c.public_key)
        THEN Raise("IncompatibleCiphertextError")
        ELSE CiphertextCollection(c.public_key, temporary)

\* verify that accepts any collection of the right length
CiphertextCollectionMapping_verify_length(self, original_collection, shuffled) ==
    LET original_shuffled ==
            CiphertextCollectionMapping_apply(self, original_collection, "verify")
    IN  IF original_shuffled = Raise("IncompatibleCiphertextCollectionError")
        THEN Bool(FALSE)
        ELSE IF IsException(original_shuffled) THEN original_shuffled
        ELSE Bool(Len(original_shuffled.ciphertexts) = Len(shuffled.ciphertexts))

\* CiphertextCollectionMapping.verify(original_collection, shuffled_collection)
CiphertextCollectionMapping_verify(self, original_collection, shuffled) ==
    LET original_shuffled ==
            CiphertextCollectionMapping_apply(self, original_collection, "verify")
    IN  IF original_shuffled = Raise("IncompatibleCiphertextCollectionError")
        THEN Bool(FALSE)
        ELSE IF IsException(original_shuffled) THEN original_shuffled
        ELSE Bool(CiphertextCollection_eq(original_shuffled, shuffled))

(***************************************************************************)
(* Shuffling a collection.  plaintext holds the block lists that were      *)
(* encrypted, under public_key, into the ciphertexts of collection.        *)
(***************************************************************************)
\* the ciphertext of the i-th block list
CollectionCiphertext(pk, blocks, i) ==
    Ciphertext(get_nbits(pk.cryptosystem), PublicKey_get_fingerprint(pk),
               [b \in 1..Len(blocks) |->
                   EncryptBlock(pk.cryptosystem, pk.key, blocks[b],
                                1 + ((i + 2 * b) % (get_prime(pk.cryptosystem) - 2)))])

\* strong_random.randint(0, len(items) - 1) at each step of the shuffle
ShuffleDraws(length) ==
    {draws \in [1..length -> 0..(length - 1)] : \A i \in 1..length : draws[i] <= length - i}

\* r = random.randint(1, prime - 2) for each block of each ciphertext
ReencryptionDraws(c) ==
    {[i \in 1..Len(c.ciphertexts) |->
         [b \in 1..Len(c.ciphertexts[i].value.blocks) |->
             1 + ((seed + i + b) % (get_prime(cryptosystem) - 2))]] : seed \in 0..1}

\* a collection holding the same ciphertexts in other objects
Copy(c) ==
    CiphertextCollection(c.public_key,
                         [i \in 1..Len(c.ciphertexts) |->
                             Object(<<"copy", i>>, c.ciphertexts[i].value)])

WithoutLast(c) ==
    CiphertextCollection(c.public_key, SubSeq(c.ciphertexts, 1, Len(c.ciphertexts) - 1))

\* the first two ciphertexts change places
Swapped(c) ==
    CiphertextCollection(c.public_key,
                         <<c.ciphertexts[2], c.ciphertexts[1]>>
                            \o SubSeq(c.ciphertexts, 3, Len(c.ciphertexts)))

\* the delta of the first block of the first ciphertext is another number
BlockChanged(c) ==
    LET first == c.ciphertexts[1].value
        pair == first.blocks[1]
        other == <<pair[1], 1 + (pair[2] % (get_prime(cryptosystem) - 1))>>
    IN  CiphertextCollection(
            c.public_key,
            <<Object(<<"changed", 1>>, [first EXCEPT !.blocks[1] = other])>>
               \o SubSeq(c.ciphertexts, 2, Len(c.ciphertexts)))

\* the collection with every ciphertext labelled as encrypted under the key
\* of another pair
UnderOtherKey(c) ==
    CiphertextCollection(
        TrusteePublicKey(2),
        [i \in 1..Len(c.ciphertexts) |->
            Object(<<"other", i>>,
                   [c.ciphertexts[i].value EXCEPT
                       !.pk_fingerprint = PublicKey_get_fingerprint(TrusteePublicKey(2))])])

\* collections that are, or are not, the given one
Variants(c) ==
    {c, Copy(c)}
      \cup (IF Len(c.ciphertexts) >= 1 THEN {WithoutLast(c), BlockChanged(c)} ELSE {})
      \cup (IF Len(c.ciphertexts) >= 2 THEN {Swapped(c)} ELSE {})

MixnetInit ==
    /\ public_key = TrusteePublicKey(1)
    /\ plaintext \in UNION {[1..n -> Plaintexts] : n \in 0..MaxCiphertexts}
    /\ collection =
          CiphertextCollection(public_key,
                               [i \in 1..Len(plaintext) |->
                                   Object(<<"collection", i>>,
                                          CollectionCiphertext(public_key, plaintext[i], i))])
    /\ mapping = None
    /\ shuffled_collection = None
    /\ params = TestParams
    /\ UtilitiesUnused
    /\ ciphertext = None
    /\ num_trustees = 0
    /\ threshold = 0
    /\ trustees_simple_public_keys = <<>>
    /\ trustees_commitments = [o \in SetUpObjects |-> <<>>]
    /\ trustees_partial_decryptions = <<>>
    /\ threshold_private_keys = <<>>
    /\ result = NoCall

MixnetFixed ==
    UNCHANGED <<num_trustees, threshold, trustees_simple_public_keys,
                trustees_commitments, public_key, ciphertext,
                trustees_partial_decryptions, threshold_private_keys, plaintext,
                collection, params,
                coefficients_polynomial, bit_stream, written, task_monitor, calls>>

\* mapping = CiphertextCollectionMapping.new(collection), made once
MappingNew(shuffle_draws, rs) ==
    /\ mapping = None
    /\ mapping' = CiphertextCollectionMapping_new(collection, shuffle_draws, rs)
    /\ result' = Returned("new", 0, collection, mapping')
    /\ UNCHANGED shuffled_collection
    /\ MixnetFixed

\* shuffled_collection = mapping.apply(collection)
MappingApply ==
    /\ mapping # None
    /\ LET value == CiphertextCollectionMapping_apply(mapping, collection, "apply")
       IN  /\ result' = Returned("apply", 0, collection, value)
           /\ shuffled_collection' =
                 IF IsException(value) THEN shuffled_collection ELSE value
    /\ UNCHANGED mapping
    /\ MixnetFixed

\* mapping.verify(original_collection, shuffled)
MappingVerify(original_collection, shuffled) ==
    /\ mapping # None
    /\ result' = Returned("verify", 0,
                          [original |-> original_collection, shuffled |-> shuffled],
                          CiphertextCollectionMapping_verify(mapping, original_collection,
                                                             shuffled))
    /\ UNCHANGED <<mapping, shuffled_collection>>
    /\ MixnetFixed

\* a == b for two collections
CollectionEq(a, b) ==
    /\ result' = Returned("__eq__", 0, [self |-> a, other |-> b],
                          Bool(CiphertextCollection_eq(a, b)))
    /\ UNCHANGED <<mapping, shuffled_collection>>
    /\ MixnetFixed

MixnetNext ==
    \/ \E shuffle_draws \in ShuffleDraws(Len(collection.ciphertexts)),
          rs \in ReencryptionDraws(collection) :
          MappingNew(shuffle_draws, rs)
    \/ MappingApply
    \/ /\ shuffled_collection # None
       /\ \E original_collection \in {collection, UnderOtherKey(collection)}
                                        \cup Variants(collection),
             shuffled \in Variants(shuffled_collection) :
             MappingVerify(original_collection, shuffled)
    \/ \E a \in {collection} \cup (IF shuffled_collection = None THEN {}
                                   ELSE {shuffled_collection}) :
          \E b \in Variants(a) : CollectionEq(a, b)

SpecMixnet == MixnetInit /\ [][MixnetNext]_vars

\* the two collections hold, index by index, ciphertexts with the same bit
\* size, fingerprint and blocks
StructurallyEqual(a, b) ==
    /\ Len(a.ciphertexts) = Len(b.ciphertexts)
    /\ \A i \in 1..Len(a.ciphertexts) :
          /\ a.ciphertexts[i].value.nbits = b.ciphertexts[i].value.nbits
          /\ a.ciphertexts[i].value.pk_fingerprint = b.ciphertexts[i].value.pk_fingerprint
          /\ a.ciphertexts[i].value.blocks = b.ciphertexts[i].value.blocks

\* C15: for the collection and the mapping made for it,
\* mapping.verify(collection, mapping.apply(collection)) is true
C15_VerifyAcceptsApplied ==
    (/\ result.op = "verify"
     /\ result.argument.original = collection
     /\ result.argument.shuffled = shuffled_collection)
        => result.value = Bool(TRUE)

\* shuffled is what applying the mapping to original gives
ExactlyApplied(original_collection, shuffled) ==
    LET applied == CiphertextCollectionMapping_apply(mapping, original_collection, "apply")
    IN  /\ ~IsException(applied)
        /\ StructurallyEqual(applied, shuffled)

DecryptedBlocks(ct) ==
    [b \in 1..Len(ct.blocks) |->
        DecryptBlock(cryptosystem, TrusteePrivateKey(1).key, ct.blocks[b])]

\* ct is, block by block, (gamma * g^r, delta * y^r) mod p of original
Reencrypts(ct, original) ==
    LET prime == get_prime(cryptosystem)
    IN  /\ Len(ct.blocks) = Len(original.blocks)
        /\ \A b \in 1..Len(ct.blocks) :
              \E r \in 1..(prime - 2) :
                 /\ ct.blocks[b][1] =
                       (original.blocks[b][1] * pow(get_generator(cryptosystem), r, prime))
                          % prime
                 /\ ct.blocks[b][2] =
                       (original.blocks[b][2] * pow(public_key.key, r, prime)) % prime

\* how many ciphertexts of the collection decrypt to the blocks
Occurrences(c, blocks) ==
    Cardinality({i \in 1..Len(c.ciphertexts) : DecryptedBlocks(c.ciphertexts[i].value) = blocks})

\* C17: in mapping.apply(collection) the element at position reordering[i] is
\* the block-wise re-encryption of element i and decrypts to the same
\* plaintext; every position is filled exactly once; the collection holds
\* the same multiset of plaintexts as the original
C17_ApplyReencryptsAndPermutes ==
    result.op = "apply" =>
        LET length == Len(collection.ciphertexts)
            out == result.value
        IN  /\ out.class = "CiphertextCollection"
            /\ Len(out.ciphertexts) = length
            /\ \A i \in 1..length :
                  LET moved == out.ciphertexts[mapping.reordering[i] + 1].value
                  IN  /\ Reencrypts(moved, collection.ciphertexts[i].value)
                      /\ DecryptedBlocks(moved) = plaintext[i]
            /\ \A j \in 1..length :
                  Cardinality({i \in 1..length : mapping.reordering[i] + 1 = j}) = 1
            /\ \A blocks \in Plaintexts : Occurrences(out, blocks) = Occurrences(collection, blocks)

\* apply moved the first of two ciphertexts to the second position
C17_Witness ==
    /\ result.op = "apply"
    /\ Len(collection.ciphertexts) = 2
    /\ mapping.reordering = <<1, 0>>
    /\ plaintext[1] # plaintext[2]
    /\ DecryptedBlocks(shuffled_collection.ciphertexts[2].value) = plaintext[1]

\* C18: two collections are equal exactly when they hold structurally equal
\* ciphertexts (bit size, fingerprint, blocks) in the same order
C18_CollectionEqualityStructural ==
    result.op = "__eq__" =>
        result.value = Bool(StructurallyEqual(result.argument.self, result.argument.other))

(***************************************************************************)
(* EGCryptoSystem.load(nbits, prime, generator).  The module imports one   *)
(* exception class, KeyLengthTooLowError; the other names its raise        *)
(* statements use are not bound in it, and evaluating an unbound name      *)
(* raises NameError.  params is the configuration module the code reads    *)
(* MINIMUM_KEY_SIZE and DEBUG from.                                        *)
(***************************************************************************)
\* names bound in the module by "from PVCExceptions import ..."
ImportedExceptions == {"KeyLengthTooLowError"}

\* raise <name>(...) inside the module
RaiseNamed(name) ==
    IF name \in ImportedExceptions THEN Raise(name) ELSE Raise("NameError")

\* Crypto.Util.number.isPrime(n, false_positive_prob)
isPrime(n) ==
    /\ n >= 2
    /\ \A divisor \in 2..n : divisor * divisor <= n => n % divisor # 0

\* _is_safe_prime(p)
is_safe_prime(p) ==
    IF p % 2 = 0 THEN FALSE
    ELSE LET q == (p - 1) \div 2
         IN  isPrime(q) /\ isPrime(p)

\* _is_generator(p, g): an exception when the debug assertion fails, else
\* the boolean the function returns
is_generator(p, g, configuration) ==
    IF configuration.DEBUG /\ ~(1 <= g /\ g <= p - 1) THEN Raise("AssertionError")
    ELSE LET q == (p - 1) \div 2
         IN  IF pow(g, 2, p) = 1 THEN Bool(FALSE)
             ELSE IF pow(g, q, p) = 1 THEN Bool(FALSE)
             ELSE Bool(TRUE)

\* EGCryptoSystem._verify_key_size(nbits)
verify_key_size(nbits, configuration) ==
    IF nbits < configuration.MINIMUM_KEY_SIZE THEN RaiseNamed("KeyLengthTooLowError")
    ELSE IF nbits % 8 # 0 THEN RaiseNamed("KeyLengthNonBytableError")
    ELSE PyInt(nbits)

\* EGCryptoSystem.load(nbits, prime, generator)
EGCryptoSystem_load(nbits, prime, generator, configuration) ==
    LET verified == verify_key_size(nbits, configuration)
    IN  IF IsException(verified) THEN verified
        ELSE IF ~is_safe_prime(prime)
        THEN RaiseNamed("NotASafePrimeError")
        ELSE LET passes == is_generator(prime, generator, configuration)
             IN  IF IsException(passes) THEN passes
                 ELSE IF passes = Bool(TRUE)
                 THEN [class |-> "EGCryptoSystem", nbits |-> verified.value,
                       prime |-> prime, generator |-> generator]
                 \* NotAGeneratorError(prime, num, ...): neither name is bound
                 ELSE Raise("NameError")

(***************************************************************************)
(* Loading cryptosystems under every configuration.                        *)
(***************************************************************************)
\* key sizes: whole bytes and one bit less
LoadKeySizes == UNION {{8 * bytes - 1, 8 * bytes} : bytes \in 1..MaxLoadBytes}

MinimumKeySizes == {0} \cup {8 * bytes : bytes \in 1..MaxLoadBytes}

\* a safe prime of 8 bits, the number before it, a prime that is not safe
\* and a safe prime of 5 bits
LoadPrimes == {167, 166, 163, 23}

\* 5 generates the group modulo 23 and modulo 167; 4 is a square
LoadGenerators(prime) == {0, 1, 4, 5, prime - 1, prime + 1, prime + 5}

LoadInit ==
    /\ params \in [MINIMUM_KEY_SIZE : {0}, DEBUG : BOOLEAN]
    /\ UtilitiesUnused
    /\ result = NoCall
    /\ MixnetUnused
    /\ public_key = None
    /\ ciphertext = None
    /\ plaintext = <<>>
    /\ num_trustees = 0
    /\ threshold = 0
    /\ trustees_simple_public_keys = <<>>
    /\ trustees_commitments = [o \in SetUpObjects |-> <<>>]
    /\ trustees_partial_decryptions = <<>>
    /\ threshold_private_keys = <<>>

LoadFixed ==
    UNCHANGED <<num_trustees, threshold, trustees_simple_public_keys,
                trustees_commitments, public_key, ciphertext,
                trustees_partial_decryptions, threshold_private_keys, plaintext,
                collection, mapping, shuffled_collection,
                coefficients_polynomial, bit_stream, written, task_monitor, calls>>

\* params.MINIMUM_KEY_SIZE = size
SetMinimumKeySize(size) ==
    /\ params' = [params EXCEPT !.MINIMUM_KEY_SIZE = size]
    /\ result' = Returned("MINIMUM_KEY_SIZE", 0, PyInt(size), None)
    /\ LoadFixed

\* EGCryptoSystem.load(nbits, prime, generator)
Load(nbits, prime, generator) ==
    /\ result' = Returned("load", 0,
                          [nbits |-> nbits, prime |-> prime, generator |-> generator],
                          EGCryptoSystem_load(nbits, prime, generator, params))
    /\ UNCHANGED params
    /\ LoadFixed

LoadNext ==
    \/ \E size \in MinimumKeySizes : SetMinimumKeySize(size)
    \/ \E nbits \in LoadKeySizes, prime \in LoadPrimes :
          \E generator \in LoadGenerators(prime) : Load(nbits, prime, generator)

SpecLoad == LoadInit /\ [][LoadNext]_vars

\* the number of bits of a positive number
BitLength(n) == CHOOSE bits \in 1..31 : IntPow(2, bits - 1) <= n /\ n < IntPow(2, bits)

KeySizeTooLow(nbits) == nbits < params.MINIMUM_KEY_SIZE

KeySizeNonBytable(nbits) == nbits % 8 # 0

KeySizeMismatch(nbits, prime) == BitLength(prime) # nbits

NotSafePrime(prime) == ~(isPrime(prime) /\ prime % 2 = 1 /\ isPrime((prime - 1) \div 2))

NotGenerator(prime, generator) ==
    \/ ~(1 <= generator /\ generator <= prime - 1)
    \/ pow(generator, 2, prime) = 1
    \/ pow(generator, (prime - 1) \div 2, prime) = 1

\* the error types of the invariants that (nbits, prime, generator) violates
ViolatedInvariants(nbits, prime, generator) ==
    (IF KeySizeTooLow(nbits) THEN {"KeyLengthTooLowError"} ELSE {})
      \cup (IF KeySizeNonBytable(nbits) THEN {"KeyLengthNonBytableError"} ELSE {})
      \cup (IF KeySizeMismatch(nbits, prime) THEN {"KeyLengthMismatch"} ELSE {})
      \cup (IF NotSafePrime(prime) THEN {"NotASafePrimeError"} ELSE {})
      \cup (IF NotGenerator(prime, generator) THEN {"NotAGeneratorError"} ELSE {})

\* C19: a cryptosystem returned by load has a bit size at or above the
\* minimum and a multiple of 8, a safe prime of exactly that many bits and a
\* generator in [1, p-1] with g^2 # 1 and g^((p-1)/2) # 1 mod p; load rejects
\* every input that violates one of these
C19_LoadReturnsOnlyValid ==
    result.op = "load" =>
        LET input == result.argument
            violated == ViolatedInvariants(input.nbits, input.prime, input.generator)
        IN  /\ violated # {} => IsException(result.value)
            /\ ~IsException(result.value) =>
                  /\ result.value.nbits = input.nbits
                  /\ result.value.prime = input.prime
                  /\ result.value.generator = input.generator
                  /\ violated = {}

\* C20: load reports a violated invariant with the error type of that
\* invariant (KeyLengthTooLow, KeyLengthNonBytable, KeyLengthMismatch,
\* NotASafePrime, NotAGenerator) and fails in no other way
C20_LoadErrorTypes ==
    result.op = "load" =>
        LET input == result.argument
            violated == ViolatedInvariants(input.nbits, input.prime, input.generator)
        IN  /\ violated # {} => \E error \in violated : result.value = Raise(error)
            /\ IsException(result.value) => result.value.exception \in violated

(***************************************************************************)
(* Evaluating polynomials.                                                 *)
(***************************************************************************)
\* CoefficientsPolynomial.__init__(modulus, coefficients)
CoefficientsPolynomial_init(modulus, coefficients) ==
    IF Len(coefficients) - 1 < 0 THEN Raise("ValueError")
    ELSE CoefficientsPolynomial(modulus, coefficients)

\* the moduli of the unit tests' small examples
PolynomialModuli == {5, 17}

\* coefficients below, at and above a modulus, and a negative one
PolynomialCoefficients == {0, 4, 17, -3}

\* the arguments: inside [0, modulus - 1], negative and above the modulus
PolynomialArguments == {-12, -1, 0, 1, 5, 16, 17, 90}

PolynomialInit ==
    /\ coefficients_polynomial = None
    /\ bit_stream = None
    /\ written = <<>>
    /\ task_monitor = None
    /\ calls = <<>>
    /\ MixnetUnused
    /\ params = TestParams
    /\ public_key = None
    /\ ciphertext = None
    /\ plaintext = <<>>
    /\ num_trustees = 0
    /\ threshold = 0
    /\ trustees_simple_public_keys = <<>>
    /\ trustees_commitments = [o \in SetUpObjects |-> <<>>]
    /\ trustees_partial_decryptions = <<>>
    /\ threshold_private_keys = <<>>
    /\ result = NoCall

\* what no operation of the utilities changes
UtilitiesFixed ==
    UNCHANGED <<num_trustees, threshold, trustees_simple_public_keys,
                trustees_commitments, public_key, ciphertext,
                trustees_partial_decryptions, threshold_private_keys, plaintext,
                collection, mapping, shuffled_collection, params>>

\* p = CoefficientsPolynomial(modulus, coefficients), made once
NewPolynomial(modulus, coefficients) ==
    /\ coefficients_polynomial = None
    /\ LET value == CoefficientsPolynomial_init(modulus, coefficients)
       IN  /\ result' = Returned("CoefficientsPolynomial", 0,
                                 [modulus |-> modulus, coefficients |-> coefficients],
                                 value)
           /\ coefficients_polynomial' =
                 IF IsException(value) THEN coefficients_polynomial ELSE value
    /\ UNCHANGED <<bit_stream, written, task_monitor, calls>>
    /\ UtilitiesFixed

\* p(x)
CallPolynomial(x) ==
    /\ coefficients_polynomial # None
    /\ result' = Returned("__call__", 0, PyInt(x),
                          PyInt(polynomial_call(coefficients_polynomial, x)))
    /\ UNCHANGED <<coefficients_polynomial, bit_stream, written, task_monitor, calls>>
    /\ UtilitiesFixed

PolynomialNext ==
    \/ \E modulus \in PolynomialModuli :
          \E coefficients \in UNION {[1..n -> PolynomialCoefficients] : n \in 0..(MaxDegree + 1)} :
             NewPolynomial(modulus, coefficients)
    \/ \E x \in PolynomialArguments : CallPolynomial(x)

SpecPolynomial == PolynomialInit /\ [][PolynomialNext]_vars

RECURSIVE PowerSum(_, _, _)
\* the sum of coefficients[i + 1] * x^i over the first n coefficients
PowerSum(coefficients, x, n) ==
    IF n = 0 THEN 0
    ELSE PowerSum(coefficients, x, n - 1) + coefficients[n] * IntPow(x, n - 1)

\* C21: for a non-empty coefficient list c_0..c_d, a prime modulus m and any
\* integer x, also negative or at or above m, the polynomial evaluated at x
\* is (sum of c_i * x^i) mod m, a value in [0, m-1]
C21_EvaluatesPowerSum ==
    /\ (result.op = "CoefficientsPolynomial" /\ Len(result.argument.coefficients) >= 1)
          => /\ ~IsException(result.value)
             /\ Len(result.value.coefficients) = Len(result.argument.coefficients)
             /\ \A i \in 1..Len(result.value.coefficients) :
                   /\ result.value.coefficients[i] \in 0..(result.argument.modulus - 1)
                   /\ (result.value.coefficients[i] - result.argument.coefficients[i])
                         % result.argument.modulus = 0
    /\ result.op = "__call__"
          => LET p == coefficients_polynomial
                 x == result.argument.value
                 sum == PowerSum(p.coefficients, x, Len(p.coefficients))
             IN  /\ result.value = PyInt(sum % p.modulus)
                 /\ result.value.value \in 0..(p.modulus - 1)

\* a polynomial of degree 2 was evaluated at a negative number and at a
\* number above its modulus
C21_Witness ==
    /\ result.op = "__call__"
    /\ Len(coefficients_polynomial.coefficients) = 3
    /\ coefficients_polynomial.coefficients[3] # 0
    /\ result.argument.value \in {-12, 90}
    /\ result.value.value # coefficients_polynomial.coefficients[1]

(***************************************************************************)
(* TaskMonitor.  task_monitor is the root task followed by its running     *)
(* subtasks: task_monitor[d + 1] is task_monitor[d].current_subtask, and   *)
(* the last task has current_subtask None.  A callback is the dictionary   *)
(* the add_on_..._callback methods build; calls lists the invocations the  *)
(* last operation made, each with the list the callback was taken from     *)
(* and the task it was given.                                              *)
(***************************************************************************)
\* TaskMonitor(task_name, num_subtasks, expected_ticks)
TaskMonitor(task_name, num_subtasks, expected_ticks) ==
    [class |-> "TaskMonitor", task_name |-> task_name, num_subtasks |-> num_subtasks,
     expected_ticks |-> expected_ticks, recorded_ticks |-> 0, current_subtask_num |-> 0,
     on_task_start_callbacks |-> <<>>, on_task_end_callbacks |-> <<>>,
     on_tick_callbacks |-> <<>>, on_progress_percent_callbacks |-> <<>>]

\* cb["function"](task), for cb of the list named event
Invocation(cb, event, task) ==
    [function |-> cb.function, event |-> event, task |-> task.task_name]

RECURSIVE FlattenFrom(_, _, _)
\* sequences[first] \o ... \o sequences[last]
FlattenFrom(sequences, first, last) ==
    IF first > last THEN <<>>
    ELSE IF first = last THEN sequences[first]
    ELSE LET middle == (first + last) \div 2
         IN  FlattenFrom(sequences, first, middle) \o FlattenFrom(sequences, middle + 1, last)

\* the sequences of a sequence, one after the other
Flatten(sequences) == FlattenFrom(sequences, 1, Len(sequences))

\* [cb for cb in callbacks if cb['cascade']]
Cascading(callbacks) ==
    LET cascades(cb) == cb.cascade
    IN  SelectSeq(callbacks, cascades)

\* the end callbacks of the tasks below task_monitor[first - 1], the deepest
\* task first: the loop over ending_subtasks_stack after reverse()
EndInvocations(tm, first) ==
    Flatten([k \in 1..(Len(tm) - first + 1) |->
                LET ending == tm[Len(tm) + 1 - k]
                IN  [i \in 1..Len(ending.on_task_end_callbacks) |->
                        Invocation(ending.on_task_end_callbacks[i], "end", ending)]])

\* the subtask new_subtask makes for self, with the cascading callbacks
Subtask(self, name, num_subtasks, expected_ticks) ==
    [TaskMonitor(name, num_subtasks, expected_ticks) EXCEPT
        !.on_task_start_callbacks = Cascading(self.on_task_start_callbacks),
        !.on_task_end_callbacks = Cascading(self.on_task_end_callbacks),
        !.on_progress_percent_callbacks =
            LET cascading == Cascading(self.on_progress_percent_callbacks)
            IN  [i \in 1..Len(cascading) |->
                    [function |-> cascading[i].function, cascade |-> TRUE,
                     percent_span |-> cascading[i].percent_span,
                     next_percent |-> cascading[i].percent_span]],
        !.on_tick_callbacks = Cascading(self.on_tick_callbacks)]

\* new_subtask whose start callbacks run before the end callbacks
new_subtask_start_first(tm, d, name, num_subtasks, expected_ticks) ==
    LET self == tm[d]
        subtask == Subtask(self, name, num_subtasks, expected_ticks)
        number == self.current_subtask_num + 1
    IN  [task_monitor |->
            SubSeq(tm, 1, d - 1)
               \o <<[self EXCEPT !.current_subtask_num = number,
                                 !.num_subtasks = IF @ > number THEN @ ELSE number],
                    subtask>>,
         calls |->
            [i \in 1..Len(self.on_task_start_callbacks) |->
                Invocation(self.on_task_start_callbacks[i], "start", subtask)]
               \o EndInvocations(tm, d + 1)]

\* tm[d].new_subtask(name, num_subtasks = .., expected_ticks = ..): the
\* tasks after it and the invocations made
new_subtask(tm, d, name, num_subtasks, expected_ticks) ==
    LET self == tm[d]
        subtask == Subtask(self, name, num_subtasks, expected_ticks)
        number == self.current_subtask_num + 1
    IN  [task_monitor |->
            SubSeq(tm, 1, d - 1)
               \o <<[self EXCEPT !.current_subtask_num = number,
                                 !.num_subtasks = IF @ > number THEN @ ELSE number],
                    subtask>>,
         calls |->
            EndInvocations(tm, d + 1)
               \o [i \in 1..Len(self.on_task_start_callbacks) |->
                      Invocation(self.on_task_start_callbacks[i], "start", subtask)]]

\* how often tick calls a progress callback: while next_percent <= percent,
\* with percent = 100.0 * recorded_ticks / expected_ticks and 0.0 for a task
\* without expected ticks
PercentInvocations(cb, task) ==
    IF task.expected_ticks = -1
    THEN 0
    ELSE IF cb.next_percent * task.expected_ticks > 100 * task.recorded_ticks
    THEN 0
    ELSE ((100 * task.recorded_ticks - cb.next_percent * task.expected_ticks)
             \div (cb.percent_span * task.expected_ticks)) + 1

\* tm[d].tick(): the tasks after it, the invocations made and the exception
\* raised, if any
tick(tm, d) ==
    LET self == [tm[d] EXCEPT !.recorded_ticks = @ + 1]
        due(cb) == self.recorded_ticks % cb.num_ticks = 0
        on_tick == SelectSeq(self.on_tick_callbacks, due)
        percent_callbacks == self.on_progress_percent_callbacks
    IN  IF self.expected_ticks < -1
        THEN [task_monitor |-> [tm EXCEPT ![d] = self], calls |-> <<>>,
              value |-> Raise("AssertionError")]
        ELSE IF self.expected_ticks = 0
        THEN [task_monitor |-> [tm EXCEPT ![d] = self], calls |-> <<>>,
              value |-> Raise("ZeroDivisionError")]
        ELSE [task_monitor |->
                 [tm EXCEPT ![d] =
                     [self EXCEPT !.on_progress_percent_callbacks =
                         [i \in 1..Len(percent_callbacks) |->
                             [percent_callbacks[i] EXCEPT
                                 !.next_percent =
                                     @ + percent_callbacks[i].percent_span
                                           * PercentInvocations(percent_callbacks[i], self)]]]],
              calls |->
                 [i \in 1..Len(on_tick) |-> Invocation(on_tick[i], "tick", self)]
                    \o Flatten([i \in 1..Len(percent_callbacks) |->
                                   [n \in 1..PercentInvocations(percent_callbacks[i], self) |->
                                       Invocation(percent_callbacks[i], "percent", self)]]),
              value |-> None]

\* tm[d].end_task()
end_task(tm, d) ==
    [task_monitor |->
        [k \in 1..Len(tm) |->
            IF k < d THEN tm[k]
            ELSE [tm[k] EXCEPT !.on_task_start_callbacks = <<>>,
                               !.on_task_end_callbacks = <<>>,
                               !.on_progress_percent_callbacks = <<>>,
                               !.on_tick_callbacks = <<>>]],
     calls |-> EndInvocations(tm, d)]

\* l.remove(cb): without the first element equal to cb
ListRemove(l, cb) ==
    LET first == CHOOSE i \in 1..Len(l) : l[i] = cb /\ \A j \in 1..(i - 1) : l[j] # cb
    IN  SubSeq(l, 1, first - 1) \o SubSeq(l, first + 1, Len(l))

RECURSIVE RemoveWhileIterating(_, _, _)
\* for cb in l: if cb['function'] is callback_function: l.remove(cb)
\* the loop goes on at the next index of the list as remove left it
RemoveWhileIterating(l, i, callback_function) ==
    IF i > Len(l) THEN l
    ELSE IF l[i].function = callback_function
    THEN RemoveWhileIterating(ListRemove(l, l[i]), i + 1, callback_function)
    ELSE RemoveWhileIterating(l, i + 1, callback_function)

\* remove_callback that leaves the lists of the subtasks alone
remove_callback_own_lists(tm, d, callback_function) ==
    [tm EXCEPT ![d] =
        [tm[d] EXCEPT
            !.on_task_start_callbacks = RemoveWhileIterating(@, 1, callback_function),
            !.on_task_end_callbacks = RemoveWhileIterating(@, 1, callback_function),
            !.on_progress_percent_callbacks = RemoveWhileIterating(@, 1, callback_function),
            !.on_tick_callbacks = RemoveWhileIterating(@, 1, callback_function)]]

\* tm[d].remove_callback(callback_function)
remove_callback(tm, d, callback_function) ==
    [k \in 1..Len(tm) |->
        IF k < d THEN tm[k]
        ELSE [tm[k] EXCEPT
                 !.on_task_start_callbacks = RemoveWhileIterating(@, 1, callback_function),
                 !.on_task_end_callbacks = RemoveWhileIterating(@, 1, callback_function),
                 !.on_progress_percent_callbacks =
                     RemoveWhileIterating(@, 1, callback_function),
                 !.on_tick_callbacks = RemoveWhileIterating(@, 1, callback_function)]]

(***************************************************************************)
(* Monitoring a task: callbacks are registered with the root task or a     *)
(* running subtask, subtasks start and end, ticks are reported.            *)
(***************************************************************************)
CallbackFunctions == {"f", "g"}

\* the name of the subtask a task at depth d starts
SubtaskNames == <<"Subtask", "Subsubtask", "Subsubsubtask", "Subsubsubsubtask">>

\* the callbacks registered: for the start and the end of a task, f,
\* cascading or not, and g, cascading; for ticks and progress, f, cascading
Registrations ==
    [list : {"start", "end"}, function : {"f"}, cascade : BOOLEAN]
       \cup [list : {"start", "end"}, function : {"g"}, cascade : {TRUE}]
       \cup [list : {"tick", "percent"}, function : {"f"}, cascade : {TRUE}]

\* the callbacks registered with a task, over its four lists
NumCallbacks(task) ==
    Len(task.on_task_start_callbacks) + Len(task.on_task_end_callbacks)
       + Len(task.on_tick_callbacks) + Len(task.on_progress_percent_callbacks)

RECURSIVE Total(_, _, _)
\* the sum of Count(task) over the first n tasks
Total(Count(_), tm, n) ==
    IF n = 0 THEN 0 ELSE Total(Count, tm, n - 1) + Count(tm[n])

RecordedTicks(task) == task.recorded_ticks

StartedSubtasks(task) == task.current_subtask_num

TaskMonitorInit ==
    /\ task_monitor = <<TaskMonitor("Root", 0, -1)>>
    /\ calls = <<>>
    /\ coefficients_polynomial = None
    /\ bit_stream = None
    /\ written = <<>>
    /\ MixnetUnused
    /\ params = TestParams
    /\ public_key = None
    /\ ciphertext = None
    /\ plaintext = <<>>
    /\ num_trustees = 0
    /\ threshold = 0
    /\ trustees_simple_public_keys = <<>>
    /\ trustees_commitments = [o \in SetUpObjects |-> <<>>]
    /\ trustees_partial_decryptions = <<>>
    /\ threshold_private_keys = <<>>
    /\ result = NoCall

TaskMonitorFixed ==
    /\ UNCHANGED <<coefficients_polynomial, bit_stream, written>>
    /\ UtilitiesFixed

\* task_monitor[d].add_on_task_start_callback(callback_function, cascade) and
\* the three other add_on_..._callback methods
AddCallback(d, list, callback_function, cascade) ==
    /\ Total(NumCallbacks, task_monitor, Len(task_monitor)) < MaxCallbacks
    /\ LET common == [function |-> callback_function, cascade |-> cascade]
       IN  task_monitor' =
              [task_monitor EXCEPT ![d] =
                  CASE list = "start" ->
                          [@ EXCEPT !.on_task_start_callbacks = Append(@, common)]
                    [] list = "end" ->
                          [@ EXCEPT !.on_task_end_callbacks = Append(@, common)]
                    [] list = "tick" ->
                          [@ EXCEPT !.on_tick_callbacks =
                               Append(@, [function |-> callback_function, cascade |-> cascade,
                                          num_ticks |-> 1])]
                    [] list = "percent" ->
                          [@ EXCEPT !.on_progress_percent_callbacks =
                               Append(@, [function |-> callback_function, cascade |-> cascade,
                                          percent_span |-> 50, next_percent |-> 50])]]
    /\ calls' = <<>>
    /\ result' = Returned("add_callback", d, callback_function, None)
    /\ TaskMonitorFixed

\* task_monitor[d].new_subtask(name, expected_ticks = expected_ticks)
NewSubtask(d, name, expected_ticks) ==
    /\ d < MaxDepth
    /\ Total(StartedSubtasks, task_monitor, Len(task_monitor)) < MaxSubtasks
    /\ LET after == new_subtask(task_monitor, d, name, 0, expected_ticks)
       IN  /\ task_monitor' = after.task_monitor
           /\ calls' = after.calls
           /\ result' = Returned("new_subtask", d, name, None)
    /\ TaskMonitorFixed

\* task_monitor[d].tick()
Tick(d) ==
    /\ Total(RecordedTicks, task_monitor, Len(task_monitor)) < MaxTicks
    /\ LET after == tick(task_monitor, d)
       IN  /\ task_monitor' = after.task_monitor
           /\ calls' = after.calls
           /\ result' = Returned("tick", d, None, after.value)
    /\ TaskMonitorFixed

\* task_monitor[d].end_task()
EndTask(d) ==
    /\ LET after == end_task(task_monitor, d)
       IN  /\ task_monitor' = after.task_monitor
           /\ calls' = after.calls
    /\ result' = Returned("end_task", d, None, None)
    /\ TaskMonitorFixed

\* task_monitor[d].remove_callback(callback_function)
RemoveCallback(d, callback_function) ==
    /\ task_monitor' = remove_callback(task_monitor, d, callback_function)
    /\ calls' = <<>>
    /\ result' = Returned("remove_callback", d, callback_function, None)
    /\ TaskMonitorFixed

TaskMonitorNext ==
    \/ \E d \in 1..Len(task_monitor), registration \in Registrations :
          AddCallback(d, registration.list, registration.function, registration.cascade)
    \/ \E d \in 1..Len(task_monitor) : NewSubtask(d, SubtaskNames[d], 2)
    \/ \E d \in 1..Len(task_monitor) : Tick(d)
    \/ \E d \in 1..Len(task_monitor) : EndTask(d)
    \/ \E d \in 1..Len(task_monitor), callback_function \in CallbackFunctions :
          RemoveCallback(d, callback_function)

SpecTaskMonitor == TaskMonitorInit /\ [][TaskMonitorNext]_vars

\* the invocations among calls of the callbacks of one list for one task
InvocationsOf(invocations, event, task_name) ==
    {i \in 1..Len(invocations) :
        invocations[i].event = event /\ invocations[i].task = task_name}

\* C23: when new_subtask ends subtasks that were still running, every end
\* callback of every ended subtask is invoked before any start callback for
\* the new subtask, at any nesting depth and in any order of registration
C23_EndCallbacksBeforeStart ==
    [][result'.op = "new_subtask" =>
          LET d == result'.trustee
              self == task_monitor[d]
          IN  /\ \A k \in (d + 1)..Len(task_monitor) :
                    \A callback_function \in CallbackFunctions :
                       Cardinality({i \in InvocationsOf(calls', "end", task_monitor[k].task_name) :
                                       calls'[i].function = callback_function})
                          = Cardinality({j \in 1..Len(task_monitor[k].on_task_end_callbacks) :
                                            task_monitor[k].on_task_end_callbacks[j].function
                                               = callback_function})
              /\ Cardinality(InvocationsOf(calls', "start", result'.argument))
                    = Len(self.on_task_start_callbacks)
              /\ \A i, j \in 1..Len(calls') :
                    (calls'[i].event = "start" /\ calls'[j].event = "end") => j < i]_vars

\* a new subtask of the root ended a subtask and its subtask: both end
\* callbacks ran, then the start callback
C23_Witness ==
    /\ result.op = "new_subtask"
    /\ result.trustee = 1
    /\ \E i, j, k \in 1..Len(calls) :
          /\ i < j /\ j < k
          /\ calls[i].event = "end" /\ calls[i].task = "Subsubtask"
          /\ calls[j].event = "end" /\ calls[j].task = "Subtask"
          /\ calls[k].event = "start"

\* the callbacks of the four lists of a task
RegisteredFunctions(task) ==
    {task.on_task_start_callbacks[i].function : i \in 1..Len(task.on_task_start_callbacks)}
       \cup {task.on_task_end_callbacks[i].function : i \in 1..Len(task.on_task_end_callbacks)}
       \cup {task.on_tick_callbacks[i].function : i \in 1..Len(task.on_tick_callbacks)}
       \cup {task.on_progress_percent_callbacks[i].function :
                i \in 1..Len(task.on_progress_percent_callbacks)}

\* C24: after remove_callback(f) has returned, f is in no callback list of
\* the task and of its running subtasks, however often and in however many
\* lists it was registered
C24_RemovedFromEveryList ==
    result.op = "remove_callback" =>
        \A k \in result.trustee..Len(task_monitor) :
           result.argument \notin RegisteredFunctions(task_monitor[k])

(***************************************************************************)
(* Reporting progress: encrypt_bitstream, decrypt_to_bitstream and         *)
(* generate_partial_decryption given a task monitor start a subtask of it  *)
(* and tick that subtask while they go through the blocks.                 *)
(***************************************************************************)
\* a task after t more ticks: what t calls of tick() leave of it
TickedTask(task, t) ==
    LET later == [task EXCEPT !.recorded_ticks = @ + t]
    IN  [later EXCEPT !.on_progress_percent_callbacks =
            [i \in 1..Len(task.on_progress_percent_callbacks) |->
                [task.on_progress_percent_callbacks[i] EXCEPT
                    !.next_percent =
                        @ + task.on_progress_percent_callbacks[i].percent_span
                              * PercentInvocations(task.on_progress_percent_callbacks[i],
                                                   later)]]]

\* n times tm[d].tick(), the t-th on the task the t - 1 before it left
ticks(tm, d, n) ==
    LET before(t) == [tm EXCEPT ![d] = TickedTask(tm[d], t - 1)]
    IN  IF n > 0 /\ IsException(tick(tm, d).value)
        THEN tick(tm, d)
        ELSE [task_monitor |-> before(n + 1),
              calls |-> Flatten([t \in 1..n |-> tick(before(t), d).calls]),
              value |-> None]

\* task_monitor.new_subtask(name, expected_ticks = expected_ticks) and n
\* ticks of the subtask; nothing when the call raised before it got there
Progress(tm, d, registers, name, expected_ticks, n) ==
    IF ~registers THEN [task_monitor |-> tm, calls |-> <<>>, value |-> None]
    ELSE LET started == new_subtask(tm, d, name, 0, expected_ticks)
             ticked == ticks(started.task_monitor, d + 1, n)
         IN  [task_monitor |-> ticked.task_monitor,
              calls |-> started.calls \o ticked.calls,
              value |-> ticked.value]

\* the blocks encrypt_bitstream goes through: math.ceil(bits / block_size)
BlocksToEncrypt(pk, formated_bitstream) ==
    LET block_size == get_nbits(pk.cryptosystem) - 1
    IN  (get_length(formated_bitstream) + block_size - 1) \div block_size

\* encrypt_bitstream that ticks once for each block
encrypt_bitstream_progress_one_tick(pk, bitstream, pad_to, padding_draws, tm, d) ==
    LET formated_bitstream == FormatBitstream(bitstream, pad_to, padding_draws)
        blocks == BlocksToEncrypt(pk, formated_bitstream)
    IN  IF IsException(formated_bitstream) THEN Progress(tm, d, FALSE, "", 0, 0)
        ELSE Progress(tm, d, TRUE, "Encrypt data", blocks * 2, blocks)

\* what encrypt_bitstream(bitstream, pad_to, task_monitor = tm[d]) does to
\* the task monitor: two ticks for each block, after gamma and after delta
encrypt_bitstream_progress(pk, bitstream, pad_to, padding_draws, tm, d) ==
    LET formated_bitstream == FormatBitstream(bitstream, pad_to, padding_draws)
        blocks == BlocksToEncrypt(pk, formated_bitstream)
    IN  IF IsException(formated_bitstream) THEN Progress(tm, d, FALSE, "", 0, 0)
        ELSE Progress(tm, d, TRUE, "Encrypt data", blocks * 2, blocks * 2)

\* the blocks decrypt_to_bitstream puts into the stream before it returns
\* or a block stops it
BlocksDecrypted(sk, blocks) ==
    LET block_size == get_nbits(sk.cryptosystem) - 1
        stops(i) == \/ blocks[i][1] >= IntPow(2, block_size + 1)
                    \/ blocks[i][2] >= IntPow(2, block_size + 1)
                    \/ ~Representable(DecryptBlock(sk.cryptosystem, sk.key, blocks[i]),
                                      block_size)
        stopping == {i \in 1..Len(blocks) : stops(i)}
    IN  IF stopping = {} THEN Len(blocks)
        ELSE (CHOOSE i \in stopping : \A j \in stopping : i <= j) - 1

\* what decrypt_to_bitstream(ciphertext, task_monitor = tm[d], force) does
\* to the task monitor
decrypt_to_bitstream_progress(sk, ct, force, tm, d) ==
    IF ~force /\ IncompatibleCiphertext(sk, ct) THEN Progress(tm, d, FALSE, "", 0, 0)
    ELSE Progress(tm, d, TRUE, "Decrypt data", Len(ct.blocks), BlocksDecrypted(sk, ct.blocks))

\* what generate_partial_decryption(ciphertext, task_monitor = tm[d], force)
\* does to the task monitor
generate_partial_decryption_progress(private_key, ct, force, tm, d) ==
    IF IsException(generate_partial_decryption(private_key, ct, force,
                                               CHOOSE draws \in ProofDraws(ct) : TRUE))
    THEN Progress(tm, d, FALSE, "", 0, 0)
    ELSE Progress(tm, d, TRUE, "Generate partial decryption", Len(ct.blocks),
                  Len(ct.blocks))

\* the most calls given the same task monitor
MaxMonitoredCalls == 2

\* a callback counting the ticks, registered with the root task
TickCounter == [function |-> "f", cascade |-> TRUE, num_ticks |-> 1]

\* the task monitors given: one with the tick counter, and one that reports
\* the percent completed and the end of the tasks too
ProgressMonitors ==
    LET counting == [TaskMonitor("Root", 0, -1) EXCEPT !.on_tick_callbacks = <<TickCounter>>]
        reporting == [counting EXCEPT
                         !.on_task_end_callbacks = <<[function |-> "g", cascade |-> TRUE]>>,
                         !.on_progress_percent_callbacks =
                             <<[function |-> "g", cascade |-> TRUE,
                                percent_span |-> 50, next_percent |-> 50]>>]
    IN  {<<counting>>, <<reporting>>}

ProgressInit ==
    /\ plaintext \in Texts
    /\ public_key = KeyPairPrivateKey(1).public_key
    /\ ciphertext = None
    /\ task_monitor \in ProgressMonitors
    /\ calls = <<>>
    /\ num_trustees = 1
    /\ threshold = 1
    /\ trustees_simple_public_keys = AllPublicKeys(1)
    /\ trustees_commitments = [o \in SetUpObjects |-> <<OneTrusteeCommitment>>]
    /\ trustees_partial_decryptions = <<>>
    /\ threshold_private_keys =
          <<generate_key_pair(cryptosystem, 1, 1, <<OneTrusteeCommitment>>, 1,
                              TrusteePrivateKey(1)).private_key>>
    /\ MixnetUnused
    /\ params = TestParams
    /\ coefficients_polynomial = None
    /\ bit_stream = None
    /\ written = <<>>
    /\ result = NoCall

ProgressFixed ==
    UNCHANGED <<plaintext, public_key, num_trustees, threshold,
                trustees_simple_public_keys, trustees_commitments,
                trustees_partial_decryptions, threshold_private_keys,
                collection, mapping, shuffled_collection, params,
                coefficients_polynomial, bit_stream, written>>

\* ciphertext = public_key.encrypt_text(message, pad_to, task_monitor)
EncryptTextMonitored(pad_to, padding_draws, last_padding, ks) ==
    LET returned == PublicKey_encrypt_text(public_key, Str(plaintext), pad_to,
                                           padding_draws, last_padding, ks)
        progress == encrypt_bitstream_progress(public_key,
                                               put_string(BitStream(<<>>, 0), Str(plaintext)),
                                               pad_to, padding_draws, task_monitor, 1)
        value == IF IsException(progress.value) THEN progress.value ELSE returned
    IN  /\ ciphertext = None
        /\ result' = Returned("encrypt_text", 0, pad_to, value)
        /\ ciphertext' = IF IsException(value) THEN ciphertext ELSE value
        /\ task_monitor' = progress.task_monitor
        /\ calls' = progress.calls
        /\ ProgressFixed

\* private_key.decrypt_to_text(ciphertext, task_monitor, force)
DecryptToTextMonitored(j, ct, force) ==
    LET returned == PrivateKey_decrypt_to_text(KeyPairPrivateKey(j), ct, force)
        progress == decrypt_to_bitstream_progress(KeyPairPrivateKey(j), ct, force,
                                                  task_monitor, 1)
    IN  /\ ciphertext # None
        /\ task_monitor[1].current_subtask_num < MaxMonitoredCalls
        /\ result' = Returned("decrypt_to_text", j, [ciphertext |-> ct, force |-> force],
                              IF IsException(progress.value) THEN progress.value
                              ELSE returned)
        /\ task_monitor' = progress.task_monitor
        /\ calls' = progress.calls
        /\ UNCHANGED ciphertext
        /\ ProgressFixed

\* threshold_private_key.generate_partial_decryption(ciphertext, task_monitor, force)
GeneratePartialDecryptionMonitored(ct, force) ==
    LET returned == generate_partial_decryption(threshold_private_keys[1], ct, force,
                                                CHOOSE draws \in ProofDraws(ct) : TRUE)
        progress == generate_partial_decryption_progress(threshold_private_keys[1], ct,
                                                          force, task_monitor, 1)
    IN  /\ ciphertext # None
        /\ task_monitor[1].current_subtask_num < MaxMonitoredCalls
        /\ result' = Returned("generate_partial_decryption", 1,
                              [ciphertext |-> ct, force |-> force],
                              IF IsException(progress.value) THEN progress.value
                              ELSE returned)
        /\ task_monitor' = progress.task_monitor
        /\ calls' = progress.calls
        /\ UNCHANGED ciphertext
        /\ ProgressFixed

ProgressNext ==
    \/ \E pad_to \in PadTos :
          \E padding_draws \in PaddingDraws(PaddingLeft(Len(plaintext), pad_to)),
             last_padding \in LastPaddingDraws(Len(plaintext), pad_to),
             ks \in KDraws(Len(plaintext), pad_to) :
             EncryptTextMonitored(pad_to, padding_draws, last_padding, ks)
    \/ \E j \in KeyPairNumbers, ct \in CiphertextsToDecrypt, force \in BOOLEAN :
          DecryptToTextMonitored(j, ct, force)
    \/ \E ct \in CiphertextsToDecryptPartially, force \in BOOLEAN :
          GeneratePartialDecryptionMonitored(ct, force)

SpecProgress == ProgressInit /\ [][ProgressNext]_vars

\* the subtask of the last call recorded n ticks and the tick counter was
\* invoked n times for it
Ticked(n) ==
    /\ Len(task_monitor) = 2
    /\ task_monitor[2].recorded_ticks = n
    /\ Cardinality({i \in InvocationsOf(calls, "tick", task_monitor[2].task_name) :
                       calls[i].function = "f"}) = n

\* the last call returned, having gone through the blocks of ct
Went(op) == result.op = op /\ ~IsException(result.value)

\* C22 as stated: with a task monitor supplied, exactly one tick is reported
\* for each ciphertext block encrypted, for each block decrypted and for each
\* block partially decrypted
C22_OneTickPerBlock ==
    /\ Went("encrypt_text") => Ticked(Len(result.value.blocks))
    /\ Went("decrypt_to_text") => Ticked(Len(result.argument.ciphertext.blocks))
    /\ Went("generate_partial_decryption") => Ticked(Len(result.argument.ciphertext.blocks))

\* C22 amended: with a task monitor supplied, exactly two ticks are reported
\* for each ciphertext block encrypted, and exactly one for each block
\* decrypted and for each block partially decrypted
C22_TicksPerBlock ==
    /\ Went("encrypt_text") => Ticked(2 * Len(result.value.blocks))
    /\ Went("decrypt_to_text") => Ticked(Len(result.argument.ciphertext.blocks))
    /\ Went("generate_partial_decryption") => Ticked(Len(result.argument.ciphertext.blocks))

\* a text was encrypted with a monitor reporting the percent completed, and
\* the ticks of its blocks were counted
C22_Witness ==
    /\ Went("encrypt_text")
    /\ Len(result.value.blocks) > 20
    /\ task_monitor[1].on_progress_percent_callbacks # <<>>
    /\ Ticked(2 * Len(result.value.blocks))

(***************************************************************************)
(* BitStream with its cells: _cells is a list of integers below            *)
(* 2**_cell_size, _current_cell and _current_cell_bit are the position and *)
(* _last_cell_last_bit is the number of bits used of the last cell.  A     *)
(* cell and a number put or got are written here as binary digits, most    *)
(* significant first, for the numbers pass 2**31; the cell of an index is  *)
(* the one Python's list gives, counted from the end for a negative one.   *)
(***************************************************************************)
\* _CELL_SIZE
CELL_SIZE == 32

\* the binary digits of a number from its first 1 on
Significant(num) ==
    LET ones == {i \in 1..Len(num) : num[i] = 1}
    IN  IF ones = {} THEN <<>>
        ELSE SubSeq(num, CHOOSE i \in ones : \A j \in ones : i <= j, Len(num))

\* num >> bits
ShiftRight(num, bits) ==
    IF bits >= Len(num) THEN <<>> ELSE SubSeq(num, 1, Len(num) - bits)

\* num % 2**bits, on bits digits
LowBits(num, bits) ==
    [i \in 1..bits |-> IF i <= bits - Len(num) THEN 0 ELSE num[Len(num) - bits + i]]

\* self._cells[cell_num], at its place in the sequence
CellIndex(cells, cell_num) ==
    IF cell_num < 0 THEN Len(cells) + cell_num + 1 ELSE cell_num + 1

\* an empty cell
ZeroCell == [i \in 1..CELL_SIZE |-> 0]

\* BitStream()
BitStream_init ==
    [class |-> "BitStream", cells |-> <<ZeroCell>>, current_cell |-> 0,
     current_cell_bit |-> 0, last_cell_last_bit |-> 0]

\* BitStream.get_length()
BitStream_get_length(self) ==
    (Len(self.cells) - 1) * CELL_SIZE + self.last_cell_last_bit

\* BitStream.get_current_pos()
BitStream_get_current_pos(self) ==
    self.current_cell * CELL_SIZE + self.current_cell_bit

\* BitStream.seek(pos): the stream it leaves and None or the exception
BitStream_seek(self, pos) ==
    IF pos > BitStream_get_length(self)
    THEN [self |-> self, value |-> Raise("IndexError")]
    ELSE LET moved == [self EXCEPT !.current_cell = pos \div CELL_SIZE,
                                   !.current_cell_bit = pos % CELL_SIZE]
         IN  [self |-> moved,
              value |-> IF moved.current_cell < Len(moved.cells) THEN None
                        ELSE Raise("AssertionError")]

\* BitStream._update_length()
update_length(self) ==
    IF /\ self.current_cell = Len(self.cells) - 1
       /\ self.current_cell_bit > self.last_cell_last_bit
    THEN [self EXCEPT !.last_cell_last_bit = self.current_cell_bit]
    ELSE self

\* BitStream._insert_in_cell(num, cell_num, start_bit, end_bit): the cells
\* with the bits start_bit to end_bit of that cell cleared and set to num
insert_in_cell(cells, num, cell_num, start_bit, end_bit) ==
    LET size == end_bit - start_bit + 1
        digits == LowBits(num, size)
    IN  [cells EXCEPT ![CellIndex(cells, cell_num)] =
            [i \in 1..CELL_SIZE |->
                IF start_bit < i /\ i <= end_bit + 1 THEN digits[i - start_bit] ELSE @[i]]]

\* the while loop and the if of put_num that append cells: the stream with
\* at least that many cells
WithCells(self, length) ==
    IF Len(self.cells) >= length THEN self
    ELSE [self EXCEPT !.cells = [i \in 1..length |->
                                    IF i <= Len(self.cells) THEN self.cells[i] ELSE ZeroCell],
                      !.last_cell_last_bit = 0]

\* BitStream.put_num(num, bit_length): the stream it leaves and None or the
\* exception
BitStream_put_num(self, num, bit_length) ==
    LET current_cell_space_left == CELL_SIZE - self.current_cell_bit
        remaining_bit_length == bit_length - current_cell_space_left
        full_cells == remaining_bit_length \div CELL_SIZE
        trailing_bit_length == remaining_bit_length % CELL_SIZE
        aligned == ShiftRight(num, trailing_bit_length)
        led == [self EXCEPT !.cells =
                   insert_in_cell(self.cells, ShiftRight(num, remaining_bit_length),
                                  self.current_cell, self.current_cell_bit, CELL_SIZE - 1)]
        extended == WithCells(led, self.current_cell + full_cells + 1)
        full == [extended EXCEPT !.cells =
                    [i \in 1..Len(extended.cells) |->
                        IF \E c \in 1..full_cells :
                              i = CellIndex(extended.cells, self.current_cell + c)
                        THEN LET c == CHOOSE c \in 1..full_cells :
                                         i = CellIndex(extended.cells, self.current_cell + c)
                             IN  LowBits(ShiftRight(aligned, CELL_SIZE * (full_cells - c)),
                                         CELL_SIZE)
                        ELSE extended.cells[i]],
                    !.current_cell = self.current_cell + full_cells + 1]
        next == WithCells(full, full.current_cell + 1)
        trailed == IF trailing_bit_length > 0
                   THEN [next EXCEPT
                            !.cells = insert_in_cell(next.cells,
                                                     LowBits(num, trailing_bit_length),
                                                     next.current_cell, 0,
                                                     trailing_bit_length - 1),
                            !.current_cell_bit = trailing_bit_length]
                   ELSE next
    IN  IF Len(Significant(num)) > bit_length
        THEN [self |-> self, value |-> Raise("ValueError")]
        ELSE IF bit_length <= current_cell_space_left
        THEN [self |-> update_length(
                          [self EXCEPT
                              !.cells = insert_in_cell(self.cells, num, self.current_cell,
                                                       self.current_cell_bit,
                                                       self.current_cell_bit + bit_length - 1),
                              !.current_cell_bit = @ + bit_length]),
              value |-> None]
        ELSE [self |-> update_length(trailed), value |-> None]

\* BitStream.get_num(bit_length): the stream it leaves and the number or
\* the exception
BitStream_get_num(self, bit_length) ==
    LET bits_left_in_current_cell == CELL_SIZE - self.current_cell_bit
        bits == bit_length - bits_left_in_current_cell
        digit(i) ==
            IF i <= bits_left_in_current_cell
            THEN self.cells[CellIndex(self.cells, self.current_cell)][self.current_cell_bit + i]
            ELSE self.cells[CellIndex(self.cells,
                                      self.current_cell + 1
                                         + ((i - bits_left_in_current_cell - 1) \div CELL_SIZE))]
                           [((i - bits_left_in_current_cell - 1) % CELL_SIZE) + 1]
    IN  IF bit_length > BitStream_get_length(self) - BitStream_get_current_pos(self)
        THEN [self |-> self, value |-> Raise("NotEnoughBitsInStreamError")]
        ELSE [self |-> IF bit_length <= bits_left_in_current_cell
                       THEN [self EXCEPT !.current_cell_bit = @ + bit_length]
                       ELSE [self EXCEPT !.current_cell = @ + 1 + (bits \div CELL_SIZE),
                                         !.current_cell_bit = bits % CELL_SIZE],
              value |-> Significant([i \in 1..bit_length |-> digit(i)])]

\* the most put_num calls on a stream
MaxPuts == 2

\* the bit lengths put and got: inside a cell, a cell, and over its end
BitLengths == {1, CELL_SIZE, CELL_SIZE + 1, 2 * CELL_SIZE - 1}

\* the numbers put with a bit length: 1, 2**bit_length - 1 and, too large,
\* 2**bit_length
Numbers(bit_length) ==
    {<<1>>, [i \in 1..bit_length |-> 1], [i \in 1..(bit_length + 1) |-> IF i = 1 THEN 1 ELSE 0]}

\* the positions sought: before, in and behind the stream
SeekPositions(self) ==
    {-1, 0, 1, CELL_SIZE, BitStream_get_length(self), BitStream_get_length(self) + 1}

BitStreamInit ==
    /\ bit_stream = BitStream_init
    /\ written = <<>>
    /\ coefficients_polynomial = None
    /\ task_monitor = None
    /\ calls = <<>>
    /\ num_trustees = 0
    /\ threshold = 0
    /\ trustees_simple_public_keys = <<>>
    /\ trustees_commitments = [o \in SetUpObjects |-> <<>>]
    /\ public_key = None
    /\ ciphertext = None
    /\ trustees_partial_decryptions = <<>>
    /\ threshold_private_keys = <<>>
    /\ plaintext = <<>>
    /\ MixnetUnused
    /\ params = TestParams
    /\ result = NoCall

BitStreamFixed ==
    UNCHANGED <<plaintext, public_key, ciphertext, num_trustees, threshold,
                trustees_simple_public_keys, trustees_commitments,
                trustees_partial_decryptions, threshold_private_keys,
                collection, mapping, shuffled_collection, params,
                coefficients_polynomial, task_monitor, calls>>

\* bitstream.put_num(num, bit_length), while the stream has only been
\* written to
PutNum(num, bit_length) ==
    LET put == BitStream_put_num(bit_stream, num, bit_length)
    IN  /\ result.op \in {NoCall.op, "put_num"}
        /\ Len(written) < MaxPuts
        /\ bit_stream' = put.self
        /\ written' = IF IsException(put.value) THEN written
                      ELSE Append(written, [num |-> num, bit_length |-> bit_length])
        /\ result' = Returned("put_num", 0, [num |-> num, bit_length |-> bit_length],
                              put.value)
        /\ BitStreamFixed

\* bitstream.seek(pos)
Seek(pos) ==
    LET sought == BitStream_seek(bit_stream, pos)
    IN  /\ bit_stream' = sought.self
        /\ result' = Returned("seek", 0, pos, sought.value)
        /\ UNCHANGED written
        /\ BitStreamFixed

\* bitstream.get_num(bit_length)
GetNum(bit_length) ==
    LET got == BitStream_get_num(bit_stream, bit_length)
    IN  /\ bit_stream' = got.self
        /\ result' = Returned("get_num", 0, bit_length, got.value)
        /\ UNCHANGED written
        /\ BitStreamFixed

BitStreamNext ==
    \/ \E bit_length \in BitLengths : \E num \in Numbers(bit_length) : PutNum(num, bit_length)
    \/ \E pos \in SeekPositions(bit_stream) : Seek(pos)
    \/ \E bit_length \in BitLengths : GetNum(bit_length)

SpecBitStream == BitStreamInit /\ [][BitStreamNext]_vars

\* the sum of the bit lengths put
WrittenBits ==
    LET bit_length(put) == put.bit_length
    IN  Total(bit_length, written, Len(written))

RECURSIVE ReadsBack(_, _)
\* get_num with the bit lengths put, from the i-th on, returns the numbers put
ReadsBack(self, i) ==
    IF i > Len(written) THEN TRUE
    ELSE LET got == BitStream_get_num(self, written[i].bit_length)
         IN  got.value = written[i].num /\ ReadsBack(got.self, i + 1)

\* C25: after put_num calls on an empty stream with numbers that fit their
\* bit lengths, the length of the stream and the current position are the sum
\* of the bit lengths, and after seek(0) get_num with the same bit lengths in
\* the same order returns the numbers put
C25_PutGetRoundTrip ==
    result.op \in {NoCall.op, "put_num"} =>
        /\ BitStream_get_length(bit_stream) = WrittenBits
        /\ BitStream_get_current_pos(bit_stream) = WrittenBits
        /\ ~IsException(BitStream_seek(bit_stream, 0).value)
        /\ ReadsBack(BitStream_seek(bit_stream, 0).self, 1)

\* C26: on a stream of length L, seek to a position outside 0..L and get_num
\* of more bits than remain raise and leave position and contents as they
\* were, and seek to a position in 0..L returns and sets the position to it
C26_SeekAndReadChecked ==
    [][LET L == BitStream_get_length(bit_stream)
           remain == L - BitStream_get_current_pos(bit_stream)
       IN  /\ result'.op = "seek" /\ result'.argument \in 0..L =>
                 /\ ~IsException(result'.value)
                 /\ BitStream_get_current_pos(bit_stream') = result'.argument
           /\ result'.op = "seek" /\ result'.argument \notin 0..L =>
                 /\ IsException(result'.value)
                 /\ bit_stream' = bit_stream
           /\ result'.op = "get_num" /\ result'.argument > remain =>
                 /\ IsException(result'.value)
                 /\ bit_stream' = bit_stream]_vars

\* C27: every partial decryption trustee j generates with the threshold
\* private key generate_key_pair returned for it is accepted by
\* add_partial_decryption for trustee j, verified against the threshold
\* public key generate_public_key derived from the same commitments
C27_HonestPartialDecryptionAccepted ==
    (/\ result.op = "add_partial_decryption"
     /\ result.trustee \in 1..num_trustees
     /\ result.argument \in HonestPartialDecryptions(result.trustee))
    => result.value = None

\* the partial decryption decrypt_to_bitstream combines as that of trustee j,
\* with the Lagrange coefficient of j
CombinedFor(j) == PyGet(trustees_partial_decryptions, j - 1)

\* C28: one trustee numbering throughout the combinator: each trustee 1..n can
\* register a partial decryption, and the number under which
\* add_partial_decryption accepts and stores it is the number of the partial
\* public key it was verified with and the number decrypt_to_bitstream
\* combines it under
C28_OneTrusteeIndexConvention ==
    (/\ result.op = "add_partial_decryption"
     /\ result.trustee \in 1..num_trustees)
    => /\ result.value # Raise("ValueError")
       /\ result.value = None =>
             /\ \A b_index \in 1..Len(ciphertext.blocks) :
                   ProofValid(cryptosystem, public_key.partial_public_keys[result.trustee],
                              ciphertext.blocks[b_index], result.argument.blocks[b_index])
             /\ CombinedFor(result.trustee) = result.argument

\* every trustee's public key is registered
AllPublicKeysRegistered ==
    \A j \in 1..num_trustees : trustees_simple_public_keys[j] # None

\* the call the step made raised ThresholdEncryptionSetUpStateError
StateErrorFrom(ops) ==
    /\ result'.op \in ops
    /\ result'.value = Raise("ThresholdEncryptionSetUpStateError")

\* C29: the set-up only moves forward: once all the public keys are
\* registered they stay registered and no later call of generate_commitment
\* raises ThresholdEncryptionSetUpStateError, and once all the commitments are
\* registered they stay registered and no later call of get_fingerprint or
\* generate_public_key raises it
C29_SetUpOnlyMovesForward ==
    [][/\ AllPublicKeysRegistered =>
             /\ AllPublicKeysRegistered'
             /\ ~StateErrorFrom({"generate_commitment"})
       /\ AllCommitmentsLoaded("tSetUp") =>
             /\ AllCommitmentsLoaded("tSetUp")'
             /\ ~StateErrorFrom({"get_fingerprint", "generate_public_key"})]_vars

\* with all the keys and all the commitments of two trustees registered, a
\* further commitment was handed in and refused
C29_Witness ==
    /\ num_trustees >= 2
    /\ AllPublicKeysRegistered
    /\ AllCommitmentsLoaded("tSetUp")
    /\ result.op = "add_trustee_commitment"
    /\ IsException(result.value)

\* C30: encryption returns a ciphertext for every text and every pad_to,
\* whatever the random draws of the padding and of the filling of the last
\* block are: no draw makes the call raise
C30_EncryptionNeverRaises ==
    result.op = "encrypt_text" => ~IsException(result.value)

====
